---- MODULE Spec2Model ----
(***************************************************************************)
(* Model of the Concur access layer of drrock77/expenses:                  *)
(* ConcurService (token state, refreshAccessToken, ensureToken,            *)
(* getHeaders, handleApiError, fetchWithRetry).                            *)
(*                                                                         *)
(* The service runs on one event loop.  Code between two awaits runs       *)
(* without interruption; every await is a suspension point at which the    *)
(* continuation of any other logical request may run.  Each action below   *)
(* is the code that runs from one suspension point to the next.  A         *)
(* suspension after which the request touches no field of the service      *)
(* before it ends (the awaits of handleApiError, the propagation of a      *)
(* thrown error through awaiting callers that have no catch clause) is     *)
(* folded into the action before it.                                       *)
(*                                                                         *)
(* Token values are natural numbers; Null (0) is null/undefined.  The      *)
(* provider is unconstrained: it answers every call with any outcome, and  *)
(* the k-th successful exchange issues the fresh token value k + 1.        *)
(***************************************************************************)
EXTENDS Naturals, Integers, Sequences, FiniteSets, TLC

\* ---------------------------------------------------------------- bounds
NumProcs == 2         \* concurrent call sequences on one service instance
MaxRequests == 2      \* logical requests started in one behaviour
MaxExchanges == 1     \* successful token exchanges the provider grants
MaxSpan == 3          \* days between the first and the last date string tried
MaxSessions == 3      \* SSE connections opened in one behaviour
MaxPosts == 2         \* POSTs to /messages answered in one behaviour

Procs == 1..NumProcs

\* ------------------------------------------------------------- constants
Null == 0
ConfigToken == 1      \* the token value a configuration supplies

\* HTTP statuses the provider answers a resource request with
Statuses == {200, 401, 403}

VARIABLES
    accessToken,              \* this.accessToken (Null or a token value)
    refreshToken,             \* this.refreshToken (Null or a token value)
    clientId,                 \* TRUE iff this.clientId is set
    clientSecret,             \* TRUE iff this.clientSecret is set
    tokenRefreshInProgress,   \* this.tokenRefreshInProgress
    pc,                       \* where each logical request is suspended
    retryOn401,               \* the retryOn401 argument of the running call
    headers,                  \* the Authorization token getHeaders returned
    calls,                    \* network calls of the current logical request
    result,                   \* how the logical request ended
    nExchanges,               \* successful exchanges granted by the provider
    nRequests,                \* logical requests started so far
    replaced,                 \* refresh token values overwritten by a new one
    lastTokenResponse,        \* body of the latest successful token response
    options,                  \* options.headers.Authorization of the running call
    response,                 \* the latest resource response of each request
    startDate,                \* the startDate argument of the per-diem call
    endDate,                  \* the endDate argument of the per-diem call
    location,                 \* the location argument of the per-diem call
    calculation,              \* what calculatePerDiem returned or threw
    pdPc,                     \* where createPerDiemExpenses is suspended
    createExpenseCalls,       \* the createExpense calls of the batch, in order
    expenses,                 \* the expenses array of createPerDiemExpenses
    entries,                  \* the expense entries created on the server
    batchResult,              \* what createPerDiemExpenses returned or threw
    domainOp,                 \* the running domain operation: its arguments,
                              \* its position, its requests and its result
    httpServer                \* runHttpServer: the transports map, the open
                              \* SSE connections and the answered POSTs

\* the state of the request client
clientVars == <<accessToken, refreshToken, clientId, clientSecret,
                tokenRefreshInProgress, pc, retryOn401, headers, calls, result,
                nExchanges, nRequests, replaced, lastTokenResponse,
                options, response>>

\* the state of a per-diem calculation and of its expense batch
perDiemVars == <<startDate, endDate, location, calculation, pdPc,
                 createExpenseCalls, expenses, entries, batchResult>>

vars == <<clientVars, perDiemVars, domainOp, httpServer>>

\* ------------------------------------------------------------ call records
NoResult == [kind |-> "none", status |-> 0, message |-> <<>>]

ResourceCall(bearer) ==
    [kind |-> "resource", grant |-> "none", path |-> "none",
     bearer |-> bearer, sentRefresh |-> Null,
     outcome |-> "pending", status |-> 0, respAccess |-> Null]

TokenCall(grant, path, sent) ==
    [kind |-> "token", grant |-> grant, path |-> path,
     bearer |-> Null, sentRefresh |-> sent,
     outcome |-> "pending", status |-> 0, respAccess |-> Null]

Last(s) == s[Len(s)]

SetLast(s, e) == [s EXCEPT ![Len(s)] = e]

\* ------------------------------------------------------------ pure helpers
StatusString(status) ==
    CASE status = 200 -> "200"
      [] status = 401 -> "401"
      [] status = 403 -> "403"
      [] status = 500 -> "500"
      [] OTHER -> "0"

StatusText(status) ==
    CASE status = 200 -> "OK"
      [] status = 401 -> "Unauthorized"
      [] status = 403 -> "Forbidden"
      [] status = 500 -> "Internal Server Error"
      [] OTHER -> ""

IsOk(status) == status >= 200 /\ status <= 299

\* ---------------------------------------------------------- response bodies
\* What `await response.json()` and `await response.text()` give: a rejection
\* (Throws) or a value.  A JSON object is kept by the two fields
\* handleApiError reads ("" when the field is absent); a string is kept as
\* its sequence of characters.
Throws == [type |-> "throws"]

NullBody == [type |-> "null"]

JsonObject(Message, error_description) ==
    [type |-> "object", Message |-> Message,
     error_description |-> error_description]

JsString(chars) == [type |-> "string", chars |-> chars]

Repeat(c, n) == [i \in 1..n |-> c]

ShortText == <<"d", "e", "n", "i", "e", "d">>

\* the length from which a plain-text body is no longer appended (line 149)
TextLimit == 200

\* What the server sent as the body: JSON (kept as the value it parses to),
\* text that is not JSON, or a stream that fails while it is read.
PlainText(chars) == [type |-> "text", chars |-> chars]

Unreadable == [type |-> "unreadable"]

\* `await response.json()` (line 127): the body is read to its end, then
\* parsed
ResponseJson(content) ==
    IF content.type \in {"text", "unreadable"} THEN Throws ELSE content

\* `await response.text()` (line 130), reached only in the catch clause of
\* response.json(): json() has read the stream of the Response that fetch
\* resolved with, a body that was read is unusable, and text() rejects with
\* a TypeError whatever the body holds
ResponseTextAfterJson(content) == Throws

\* the body of a Response as handleApiError reads it
Body(content) ==
    [content |-> content, json |-> ResponseJson(content),
     text |-> ResponseTextAfterJson(content)]

\* the response bodies a resource response may carry
Bodies ==
    { Body(content) : content \in
        { JsonObject("Access denied", ""),
          JsonObject("", "invalid_grant"),
          JsonObject("Access denied", "invalid_grant"),
          JsonObject("", ""),
          NullBody,
          JsString(ShortText),
          JsString(Repeat("x", TextLimit - 1)),
          JsString(Repeat("x", TextLimit)),
          PlainText(ShortText),
          PlainText(Repeat("x", TextLimit - 1)),
          PlainText(Repeat("x", TextLimit)),
          Unreadable } }

\* a body that parses neither as JSON nor as text
UnparseableBody == Body(Unreadable)

NoResponse ==
    [status |-> 0, statusText |-> "", content |-> Unreadable,
     json |-> Throws, text |-> Throws]

\* the Response object fetch resolves with
HttpResponse(status, body) ==
    [status |-> status, statusText |-> StatusText(status),
     content |-> body.content, json |-> body.json, text |-> body.text]

\* handleApiError, lines 125-134: JSON first, then text, then null
ErrorBody(resp) ==
    IF resp.json # Throws THEN resp.json
    ELSE IF resp.text # Throws THEN resp.text
    ELSE NullBody

\* variant: a body that did not parse is reported as "unknown error"
Suffix_Unknown(errorBody) ==
    IF errorBody.type = "object" /\ errorBody.Message # ""
      THEN <<" - ", errorBody.Message>>
    ELSE IF errorBody.type = "object" /\ errorBody.error_description # ""
      THEN <<" - ", errorBody.error_description>>
    ELSE IF errorBody.type = "string" /\ Len(errorBody.chars) < TextLimit
      THEN <<" - ">> \o errorBody.chars
    ELSE <<" - ", "unknown error">>

\* handleApiError, lines 145-151: what is appended to the message
Suffix(errorBody) ==
    IF errorBody.type = "object" /\ errorBody.Message # ""
      THEN <<" - ", errorBody.Message>>
    ELSE IF errorBody.type = "object" /\ errorBody.error_description # ""
      THEN <<" - ", errorBody.error_description>>
    ELSE IF errorBody.type = "string" /\ Len(errorBody.chars) < TextLimit
      THEN <<" - ">> \o errorBody.chars
    ELSE <<>>

\* the message handleApiError builds first (line 137)
BaseMessage(resp, context) ==
    <<"Concur API error (", context, "): ",
      StatusString(resp.status), " ", resp.statusText>>

\* handleApiError(response, context): the error it throws
handleApiError(resp, context) ==
    [kind |-> "ApiError", status |-> resp.status,
     statusText |-> resp.statusText, body |-> ErrorBody(resp),
     message |-> BaseMessage(resp, context) \o Suffix(ErrorBody(resp))]

RefreshError ==
    [kind |-> "RefreshError", status |-> 0,
     message |-> <<"Failed to refresh token: ">>]

AuthenticateError ==
    [kind |-> "AuthenticateError", status |-> 0,
     message |-> <<"Failed to authenticate: ">>]

ConfigError ==
    [kind |-> "ConfigError", status |-> 0,
     message |-> <<"No access token, refresh token, or client credentials provided">>]

NetworkError ==
    [kind |-> "NetworkError", status |-> 0, message |-> <<"fetch failed">>]

Success ==
    [kind |-> "Response", status |-> 200, message |-> <<>>]

\* variant: the 401 branch tests the client credentials only
HasRefreshCredentials_ClientOnly == clientId /\ clientSecret

\* fetchWithRetry, line 169:
\* `this.refreshToken && this.clientId && this.clientSecret`
HasRefreshCredentials ==
    refreshToken # Null /\ clientId /\ clientSecret

\* ensureToken, line 79: the same test before the refresh_token exchange
EnsureUsesRefreshToken ==
    refreshToken # Null /\ clientId /\ clientSecret

\* variant: one of the two client credentials is enough
HasClientCredentials_Either == clientId \/ clientSecret

\* ensureToken, line 84, negated: `this.clientId && this.clientSecret`
HasClientCredentials == clientId /\ clientSecret

\* variant: the flag is not cleared after a successful refresh
FlagAfterRefresh_Kept == TRUE

\* the value fetchWithRetry gives the flag once the refresh returned (174)
FlagAfterRefresh == FALSE

\* variant: the catch clause leaves the flag set
FlagAfterRefreshError_Stuck == TRUE

\* the value fetchWithRetry gives the flag once the refresh threw (177)
FlagAfterRefreshError == FALSE

\* variant: the exchange sends the refresh token of the configuration
RefreshTokenSent_Config == ConfigToken

\* the refresh_token form field of refreshAccessToken
RefreshTokenSent == refreshToken

\* variant: the flag test is inverted
ShouldRefresh_FlagInverted(status, retry, inProgress) ==
    status = 401 /\ retry /\ inProgress

\* variant: the flag is not tested
ShouldRefresh_IgnoresFlag(status, retry, inProgress) ==
    status = 401 /\ retry

\* variant: every non-2xx response starts a refresh
ShouldRefresh_NotOk(status, retry, inProgress) ==
    ~IsOk(status) /\ retry /\ ~inProgress

\* the guard of the 401 branch of fetchWithRetry
ShouldRefresh(status, retry, inProgress) ==
    status = 401 /\ retry /\ ~inProgress

\* variant: the retry is issued with retryOn401 = true
RetryArgument_True == TRUE

\* the retryOn401 argument of the recursive call
RetryArgument == FALSE

\* the token Authorization carries: `Bearer ${this.accessToken}`
BearerOf(stored) == stored

\* variant: the refresh does not store the new access token
StoredAccessAfterRefresh_Keep(respAccess) == accessToken

\* variant: the refresh token is overwritten even when none is supplied
StoredRefreshAfterRefresh_Always(stored, respRefresh) == respRefresh

\* variant: the refresh token of the response is not stored in the step that
\* stores the access token
StoredRefreshAfterRefresh_Later(stored, respRefresh) == stored

\* refreshAccessToken, lines 63-67: the writes of a successful refresh
StoredAccessAfterRefresh(respAccess) == respAccess

StoredRefreshAfterRefresh(stored, respRefresh) ==
    IF respRefresh # Null THEN respRefresh ELSE stored

\* variant: the catch clause of refreshAccessToken drops the access token
StoredAccessAfterRefreshError_Cleared(stored) == Null

\* refreshAccessToken, lines 58-61 and 69-72: a failed exchange throws
\* before the assignments of lines 64-67
StoredAccessAfterRefreshError(stored) == stored

\* ensureToken, line 109: the client_credentials exchange stores the
\* access token only
StoredRefreshAfterAuthenticate(stored, respRefresh) == stored

\* a JavaScript object without fields
NoFields == [f \in {} |-> 0]

\* no domain operation has been called
NoOperation ==
    [name |-> "none", paymentTypeId |-> FALSE, locationCity |-> FALSE,
     updates |-> NoFields, existing |-> NoFields,
     pc |-> "idle", requests |-> <<>>, result |-> [kind |-> "none"]]

\* the HTTP server has just started: the transports map is empty
NoServer ==
    [opened |-> 0, open |-> {}, transports |-> {}, connected |-> {},
     posts |-> <<>>]

\* no per-diem call has been made
NoInput == [form |-> "none", month |-> 0, day |-> 0, hour |-> 0]

NoCalculation == [kind |-> "none"]

NoBatchResult == [kind |-> "none"]

PerDiemIdle ==
    /\ calculation = NoCalculation
    /\ pdPc = "idle"
    /\ createExpenseCalls = <<>>
    /\ expenses = <<>>
    /\ entries = <<>>
    /\ batchResult = NoBatchResult

\* ------------------------------------------------------------------- Init
Init ==
    /\ accessToken \in {Null, ConfigToken}
    /\ refreshToken \in {Null, ConfigToken}
    /\ clientId \in BOOLEAN
    /\ clientSecret \in BOOLEAN
    /\ tokenRefreshInProgress = FALSE
    /\ pc = [p \in Procs |-> "idle"]
    /\ retryOn401 = [p \in Procs |-> TRUE]
    /\ headers = [p \in Procs |-> Null]
    /\ calls = [p \in Procs |-> <<>>]
    /\ result = [p \in Procs |-> NoResult]
    /\ nExchanges = 0
    /\ nRequests = 0
    /\ replaced = {}
    /\ lastTokenResponse = [access_token |-> Null, refresh_token |-> Null]
    /\ options = [p \in Procs |-> Null]
    /\ response = [p \in Procs |-> NoResponse]
    /\ startDate = NoInput
    /\ endDate = NoInput
    /\ location = <<>>
    /\ PerDiemIdle
    /\ domainOp = NoOperation
    /\ httpServer = NoServer

\* ---------------------------------------------------------------- actions
Context == "getReports"

CannotRefreshError ==
    [kind |-> "CannotRefreshError", status |-> 0,
     message |-> <<"Cannot refresh token: Missing refresh token or client credentials.">>]

\* the guard of refreshAccessToken (line 37), negated
CanRefresh == refreshToken # Null /\ clientId /\ clientSecret

\* the first test of ensureToken: `if (this.accessToken) return`
TokenHeld == accessToken # Null

\* fetchWithRetry(url, options, context, retry) from its call up to the first
\* suspension: getHeaders calls ensureToken, which returns at once when a
\* token is held, else starts the refresh_token exchange, else throws the
\* configuration error, else starts the client_credentials exchange.
\* log is the request's call list so far.
EnterFetchWithRetry(p, retry, log) ==
    /\ retryOn401' = [retryOn401 EXCEPT ![p] = retry]
    /\ headers' = [headers EXCEPT ![p] = Null]
    /\ IF TokenHeld
         THEN /\ pc' = [pc EXCEPT ![p] = "ensured"]
              /\ calls' = [calls EXCEPT ![p] = log]
              /\ result' = [result EXCEPT ![p] = NoResult]
         ELSE IF EnsureUsesRefreshToken
         THEN IF CanRefresh
                THEN /\ pc' = [pc EXCEPT ![p] = "refreshFromEnsure"]
                     /\ calls' = [calls EXCEPT ![p] =
                           Append(log, TokenCall("refresh_token", "ensure",
                                                 RefreshTokenSent))]
                     /\ result' = [result EXCEPT ![p] = NoResult]
                ELSE /\ pc' = [pc EXCEPT ![p] = "failed"]
                     /\ calls' = [calls EXCEPT ![p] = log]
                     /\ result' = [result EXCEPT ![p] = CannotRefreshError]
         ELSE IF ~HasClientCredentials
         THEN /\ pc' = [pc EXCEPT ![p] = "failed"]
              /\ calls' = [calls EXCEPT ![p] = log]
              /\ result' = [result EXCEPT ![p] = ConfigError]
         ELSE /\ pc' = [pc EXCEPT ![p] = "authenticate"]
              /\ calls' = [calls EXCEPT ![p] =
                    Append(log, TokenCall("client_credentials", "ensure", Null))]
              /\ result' = [result EXCEPT ![p] = NoResult]

\* the Authorization header a caller puts in options.headers
CallerAuthorization == 9

\* options.headers of the domain operations of ConcurService: Content-Type,
\* Content-Length or Accept, never Authorization
DomainOptions == {Null}

\* options.headers of any caller of fetchWithRetry
AnyOptions == {Null, CallerAuthorization}

\* the Authorization of `{ ...headers, ...options.headers }` (line 163):
\* a later spread overwrites the keys of an earlier one
MergedAuthorization(own, caller) ==
    IF caller # Null THEN caller ELSE own

\* A caller invokes fetchWithRetry(url, options, context): a new logical
\* request starts (retryOn401 defaults to true).  opts is the Authorization
\* header of options.headers, Null when the caller supplies none.
FetchWithRetry(p, opts) ==
    /\ pc[p] \in {"idle", "done", "failed"}
    /\ nRequests < MaxRequests
    /\ nRequests' = nRequests + 1
    /\ options' = [options EXCEPT ![p] = opts]
    /\ response' = [response EXCEPT ![p] = NoResponse]
    /\ EnterFetchWithRetry(p, TRUE, <<>>)
    /\ UNCHANGED <<accessToken, refreshToken, clientId, clientSecret,
                   tokenRefreshInProgress, nExchanges, replaced,
                   lastTokenResponse>>
    /\ UNCHANGED <<perDiemVars, domainOp, httpServer>>

\* getHeaders resumes after `await this.ensureToken()` and builds the
\* Authorization header from the stored access token.
GetHeaders(p) ==
    /\ pc[p] = "ensured"
    /\ headers' = [headers EXCEPT ![p] = BearerOf(accessToken)]
    /\ pc' = [pc EXCEPT ![p] = "headersReady"]
    /\ UNCHANGED <<accessToken, refreshToken, clientId, clientSecret,
                   tokenRefreshInProgress, retryOn401, calls, result,
                   nExchanges, nRequests, replaced,
                   lastTokenResponse, options, response>>
    /\ UNCHANGED <<perDiemVars, domainOp, httpServer>>

\* fetchWithRetry resumes after `await this.getHeaders()` and issues the
\* resource request: fetch(url, mergedOptions).
Fetch(p) ==
    /\ pc[p] = "headersReady"
    /\ calls' = [calls EXCEPT ![p] =
          Append(@, ResourceCall(MergedAuthorization(headers[p], options[p])))]
    /\ pc' = [pc EXCEPT ![p] = "awaitResponse"]
    /\ UNCHANGED <<accessToken, refreshToken, clientId, clientSecret,
                   tokenRefreshInProgress, retryOn401, headers, result,
                   nExchanges, nRequests, replaced,
                   lastTokenResponse, options, response>>
    /\ UNCHANGED <<perDiemVars, domainOp, httpServer>>

\* The resource response arrives; fetchWithRetry runs lines 168-187.
\* handleApiError awaits the body, which touches no state of the service,
\* so the error is built in the same step.
Response(p, status, body) ==
    /\ pc[p] = "awaitResponse"
    /\ response' = [response EXCEPT ![p] = HttpResponse(status, body)]
    /\ LET answered == SetLast(calls[p],
                          [Last(calls[p]) EXCEPT
                              !.outcome = "ok", !.status = status])
       IN IF ShouldRefresh(status, retryOn401[p], tokenRefreshInProgress)
             /\ HasRefreshCredentials
            THEN /\ tokenRefreshInProgress' = TRUE
                 /\ IF CanRefresh
                      THEN /\ calls' = [calls EXCEPT ![p] =
                                 Append(answered,
                                        TokenCall("refresh_token", "401",
                                                  RefreshTokenSent))]
                           /\ pc' = [pc EXCEPT ![p] = "refreshFrom401"]
                           /\ result' = result
                      ELSE /\ calls' = [calls EXCEPT ![p] = answered]
                           /\ pc' = [pc EXCEPT ![p] = "refreshThrew"]
                           /\ result' = [result EXCEPT ![p] = CannotRefreshError]
            ELSE /\ tokenRefreshInProgress' = tokenRefreshInProgress
                 /\ calls' = [calls EXCEPT ![p] = answered]
                 /\ IF ~IsOk(status)
                      THEN /\ pc' = [pc EXCEPT ![p] = "failed"]
                           /\ result' = [result EXCEPT ![p] =
                                            handleApiError(HttpResponse(status, body),
                                                           Context)]
                      ELSE /\ pc' = [pc EXCEPT ![p] = "done"]
                           /\ result' = [result EXCEPT ![p] = Success]
    /\ UNCHANGED <<accessToken, refreshToken, clientId, clientSecret,
                   retryOn401, headers, nExchanges, nRequests, replaced,
                   lastTokenResponse,
                   options>>
    /\ UNCHANGED <<perDiemVars, domainOp, httpServer>>

\* fetch of the resource rejects (network failure): nothing catches it.
FetchFails(p) ==
    /\ pc[p] = "awaitResponse"
    /\ calls' = [calls EXCEPT ![p] =
                    SetLast(@, [Last(@) EXCEPT !.outcome = "neterr"])]
    /\ pc' = [pc EXCEPT ![p] = "failed"]
    /\ result' = [result EXCEPT ![p] = NetworkError]
    /\ UNCHANGED <<accessToken, refreshToken, clientId, clientSecret,
                   tokenRefreshInProgress, retryOn401, headers,
                   nExchanges, nRequests, replaced,
                   lastTokenResponse, options, response>>
    /\ UNCHANGED <<perDiemVars, domainOp, httpServer>>

\* The token endpoint grants the refresh_token exchange: refreshAccessToken
\* stores the tokens (lines 63-67) and returns.  respRefresh is Null when the
\* response supplies no refresh_token.
RefreshGranted(p, respRefresh) ==
    /\ pc[p] \in {"refreshFromEnsure", "refreshFrom401"}
    /\ nExchanges < MaxExchanges
    /\ respRefresh \in {Null, nExchanges + 2}
    /\ LET respAccess == nExchanges + 2
       IN /\ accessToken' = StoredAccessAfterRefresh(respAccess)
          /\ refreshToken' = StoredRefreshAfterRefresh(refreshToken, respRefresh)
          /\ calls' = [calls EXCEPT ![p] =
                SetLast(@, [Last(@) EXCEPT !.outcome = "ok", !.status = 200,
                               !.respAccess = respAccess])]
          /\ lastTokenResponse' = [access_token |-> respAccess,
                                   refresh_token |-> respRefresh]
    /\ replaced' = IF refreshToken' # refreshToken
                     THEN replaced \cup {refreshToken} ELSE replaced
    /\ nExchanges' = nExchanges + 1
    /\ pc' = [pc EXCEPT ![p] =
                 IF pc[p] = "refreshFromEnsure" THEN "ensured" ELSE "refreshed"]
    /\ UNCHANGED <<clientId, clientSecret, tokenRefreshInProgress,
                   retryOn401, headers, result, nRequests,
                   options, response>>
    /\ UNCHANGED <<perDiemVars, domainOp, httpServer>>

\* The refresh_token exchange is rejected (non-2xx) or its fetch rejects:
\* refreshAccessToken throws.  Called from ensureToken the error ends the
\* request; called from the 401 branch it is caught at line 176 after the
\* suspension of `await this.refreshAccessToken()`.
RefreshRefused(p, outcome) ==
    /\ pc[p] \in {"refreshFromEnsure", "refreshFrom401"}
    /\ outcome \in {"rejected", "neterr"}
    /\ calls' = [calls EXCEPT ![p] =
          SetLast(@, [Last(@) EXCEPT !.outcome = outcome,
                         !.status = IF outcome = "rejected" THEN 400 ELSE 0])]
    /\ result' = [result EXCEPT ![p] =
                     IF outcome = "rejected" THEN RefreshError ELSE NetworkError]
    /\ pc' = [pc EXCEPT ![p] =
                 IF pc[p] = "refreshFromEnsure" THEN "failed" ELSE "refreshThrew"]
    /\ accessToken' = StoredAccessAfterRefreshError(accessToken)
    /\ UNCHANGED <<refreshToken, clientId, clientSecret,
                   tokenRefreshInProgress, retryOn401, headers,
                   nExchanges, nRequests, replaced,
                   lastTokenResponse, options, response>>
    /\ UNCHANGED <<perDiemVars, domainOp, httpServer>>

\* fetchWithRetry resumes after a successful `await this.refreshAccessToken()`
\* (lines 174-175): clears the flag and calls itself with retryOn401 = false.
RefreshReturned(p) ==
    /\ pc[p] = "refreshed"
    /\ tokenRefreshInProgress' = FlagAfterRefresh
    /\ EnterFetchWithRetry(p, RetryArgument, calls[p])
    /\ UNCHANGED <<accessToken, refreshToken, clientId, clientSecret,
                   nExchanges, nRequests, replaced,
                   lastTokenResponse, options, response>>
    /\ UNCHANGED <<perDiemVars, domainOp, httpServer>>

\* fetchWithRetry catches the refresh error (lines 176-179): clears the flag
\* and rethrows.
RefreshThrew(p) ==
    /\ pc[p] = "refreshThrew"
    /\ tokenRefreshInProgress' = FlagAfterRefreshError
    /\ pc' = [pc EXCEPT ![p] = "failed"]
    /\ UNCHANGED <<accessToken, refreshToken, clientId, clientSecret,
                   retryOn401, headers, calls, result,
                   nExchanges, nRequests, replaced,
                   lastTokenResponse, options, response>>
    /\ UNCHANGED <<perDiemVars, domainOp, httpServer>>

\* The token endpoint grants the client_credentials exchange of ensureToken
\* (lines 108-109): only the access token is stored.
AuthenticateGranted(p, respRefresh) ==
    /\ pc[p] = "authenticate"
    /\ nExchanges < MaxExchanges
    /\ respRefresh \in {Null, nExchanges + 2}
    /\ LET respAccess == nExchanges + 2
       IN /\ accessToken' = respAccess
          /\ refreshToken' = StoredRefreshAfterAuthenticate(refreshToken, respRefresh)
          /\ calls' = [calls EXCEPT ![p] =
                SetLast(@, [Last(@) EXCEPT !.outcome = "ok", !.status = 200,
                               !.respAccess = respAccess])]
          /\ lastTokenResponse' = [access_token |-> respAccess,
                                   refresh_token |-> respRefresh]
    /\ replaced' = IF refreshToken' # refreshToken
                     THEN replaced \cup {refreshToken} ELSE replaced
    /\ nExchanges' = nExchanges + 1
    /\ pc' = [pc EXCEPT ![p] = "ensured"]
    /\ UNCHANGED <<clientId, clientSecret, tokenRefreshInProgress,
                   retryOn401, headers, result, nRequests,
                   options, response>>
    /\ UNCHANGED <<perDiemVars, domainOp, httpServer>>

\* The client_credentials exchange is rejected or its fetch rejects:
\* ensureToken throws and the request ends.
AuthenticateRefused(p, outcome) ==
    /\ pc[p] = "authenticate"
    /\ outcome \in {"rejected", "neterr"}
    /\ calls' = [calls EXCEPT ![p] =
          SetLast(@, [Last(@) EXCEPT !.outcome = outcome,
                         !.status = IF outcome = "rejected" THEN 400 ELSE 0])]
    /\ result' = [result EXCEPT ![p] =
                     IF outcome = "rejected" THEN AuthenticateError ELSE NetworkError]
    /\ pc' = [pc EXCEPT ![p] = "failed"]
    /\ UNCHANGED <<accessToken, refreshToken, clientId, clientSecret,
                   tokenRefreshInProgress, retryOn401, headers,
                   nExchanges, nRequests, replaced,
                   lastTokenResponse, options, response>>
    /\ UNCHANGED <<perDiemVars, domainOp, httpServer>>

Next ==
    \E p \in Procs :
        \/ \E opts \in DomainOptions : FetchWithRetry(p, opts)
        \/ GetHeaders(p)
        \/ Fetch(p)
        \/ \E status \in Statuses : Response(p, status, UnparseableBody)
        \/ FetchFails(p)
        \/ \E respRefresh \in 0..(MaxExchanges + 1) : RefreshGranted(p, respRefresh)
        \/ \E outcome \in {"rejected", "neterr"} : RefreshRefused(p, outcome)
        \/ RefreshReturned(p)
        \/ RefreshThrew(p)
        \/ \E respRefresh \in 0..(MaxExchanges + 1) : AuthenticateGranted(p, respRefresh)
        \/ \E outcome \in {"rejected", "neterr"} : AuthenticateRefused(p, outcome)

\* Concurrent requests of the domain operations; every error body is the
\* unparseable one.
Spec == Init /\ [][Next]_vars

\* the credential check of the server at startup (index.ts, line 26), which
\* exits when it fails:
\* `!accessToken && !refreshToken && (!clientId || !clientSecret)`
StartupRejects ==
    accessToken = Null /\ refreshToken = Null /\ (~clientId \/ ~clientSecret)

\* the service as the server constructs it once the check has passed
ServerInit == Init /\ ~StartupRejects

\* Concurrent requests on the service of a started server.
ServerSpec == ServerInit /\ [][Next]_vars

\* the statuses of the sequential runs
SeqStatuses == Statuses \cup {500}

\* One caller at a time, any options.headers, every response body.
SeqNext ==
    \/ \E opts \in AnyOptions : FetchWithRetry(1, opts)
    \/ GetHeaders(1)
    \/ Fetch(1)
    \/ \E status \in SeqStatuses : \E body \in Bodies : Response(1, status, body)
    \/ FetchFails(1)
    \/ \E respRefresh \in 0..(MaxExchanges + 1) : RefreshGranted(1, respRefresh)
    \/ \E outcome \in {"rejected", "neterr"} : RefreshRefused(1, outcome)
    \/ RefreshReturned(1)
    \/ RefreshThrew(1)
    \/ \E respRefresh \in 0..(MaxExchanges + 1) : AuthenticateGranted(1, respRefresh)
    \/ \E outcome \in {"rejected", "neterr"} : AuthenticateRefused(1, outcome)

SeqSpec == Init /\ [][SeqNext]_vars

\* Every step of a running request: the event loop runs each queued
\* continuation and every network call returns.
Resume(p) ==
    \/ GetHeaders(p)
    \/ Fetch(p)
    \/ \E status \in Statuses : Response(p, status, UnparseableBody)
    \/ FetchFails(p)
    \/ \E respRefresh \in 0..(MaxExchanges + 1) : RefreshGranted(p, respRefresh)
    \/ \E outcome \in {"rejected", "neterr"} : RefreshRefused(p, outcome)
    \/ RefreshReturned(p)
    \/ RefreshThrew(p)
    \/ \E respRefresh \in 0..(MaxExchanges + 1) : AuthenticateGranted(p, respRefresh)
    \/ \E outcome \in {"rejected", "neterr"} : AuthenticateRefused(p, outcome)

FairSpec == Spec /\ \A p \in Procs : WF_vars(Resume(p))

\* ============================================================== per diem
\* Strings are sequences of one-character strings.  Amounts are in cents:
\* every amount of the table is a multiple of 0.50, so the floating-point
\* sums of the code are exact.
PER_DIEM_RATES ==
    << [location |-> <<"N", "e", "w", " ", "Y", "o", "r", "k", " ", "C", "i", "t", "y">>,
        aliases |-> <<<<"N", "Y", "C">>,
                      <<"N", "e", "w", " ", "Y", "o", "r", "k">>,
                      <<"M", "a", "n", "h", "a", "t", "t", "a", "n">>>>,
        country |-> "US", fullDay |-> 9200, partialDay |-> 6900,
        isDefault |-> FALSE],
       [location |-> <<"S", "a", "n", " ", "F", "r", "a", "n", "c", "i", "s", "c", "o">>,
        aliases |-> <<<<"S", "F">>,
                      <<"B", "a", "y", " ", "A", "r", "e", "a">>>>,
        country |-> "US", fullDay |-> 9200, partialDay |-> 6900,
        isDefault |-> FALSE],
       [location |-> <<"B", "o", "s", "t", "o", "n">>,
        aliases |-> <<>>,
        country |-> "US", fullDay |-> 1800, partialDay |-> 1800,
        isDefault |-> FALSE],
       [location |-> <<"A", "l", "l", " ", "O", "t", "h", "e", "r", " ", "U", "S">>,
        aliases |-> <<<<"U", "S">>,
                      <<"U", "S", "A">>,
                      <<"U", "n", "i", "t", "e", "d", " ", "S", "t", "a", "t", "e", "s">>>>,
        country |-> "US", fullDay |-> 7400, partialDay |-> 5600,
        isDefault |-> TRUE],
       [location |-> <<"S", "w", "i", "t", "z", "e", "r", "l", "a", "n", "d">>,
        aliases |-> <<<<"Z", "u", "r", "i", "c", "h">>,
                      <<"G", "e", "n", "e", "v", "a">>,
                      <<"B", "a", "s", "e", "l">>>>,
        country |-> "CH", fullDay |-> 15000, partialDay |-> 11250,
        isDefault |-> FALSE],
       [location |-> <<"L", "o", "n", "d", "o", "n">>,
        aliases |-> <<<<"U", "K">>,
                      <<"U", "n", "i", "t", "e", "d", " ", "K", "i", "n", "g", "d", "o", "m">>,
                      <<"E", "n", "g", "l", "a", "n", "d">>>>,
        country |-> "GB", fullDay |-> 15000, partialDay |-> 11250,
        isDefault |-> FALSE],
       [location |-> <<"C", "o", "p", "e", "n", "h", "a", "g", "e", "n">>,
        aliases |-> <<<<"D", "e", "n", "m", "a", "r", "k">>>>,
        country |-> "DK", fullDay |-> 15000, partialDay |-> 11250,
        isDefault |-> FALSE],
       [location |-> <<"R", "e", "s", "t", " ", "o", "f", " ", "W", "o", "r", "l", "d">>,
        aliases |-> <<<<"I", "n", "t", "e", "r", "n", "a", "t", "i", "o", "n", "a", "l">>,
                      <<"O", "t", "h", "e", "r">>>>,
        country |-> "INTL", fullDay |-> 10000, partialDay |-> 7500,
        isDefault |-> TRUE] >>

UpperCase == <<"A", "B", "C", "D", "E", "F", "G", "H", "I", "J", "K", "L", "M", "N", "O", "P", "Q", "R", "S", "T", "U", "V", "W", "X", "Y", "Z">>

LowerCase == <<"a", "b", "c", "d", "e", "f", "g", "h", "i", "j", "k", "l", "m", "n", "o", "p", "q", "r", "s", "t", "u", "v", "w", "x", "y", "z">>

\* String.prototype.toLowerCase
ToLowerChar(c) ==
    IF \E i \in 1..Len(UpperCase) : UpperCase[i] = c
      THEN LowerCase[CHOOSE i \in 1..Len(UpperCase) : UpperCase[i] = c]
      ELSE c

\* variant: the case of the letters is kept
toLowerCase_Identity(s) == s

toLowerCase(s) == [i \in 1..Len(s) |-> ToLowerChar(s[i])]

MinOf(S) == CHOOSE x \in S : \A y \in S : x <= y

MaxOf(S) == CHOOSE x \in S : \A y \in S : x >= y

\* String.prototype.trim
trim(s) ==
    LET kept == {i \in 1..Len(s) : s[i] # " "}
    IN IF kept = {} THEN <<>> ELSE SubSeq(s, MinOf(kept), MaxOf(kept))

\* String.prototype.includes: the empty string is included in every string
includes(s, t) ==
    \E i \in 0..(Len(s) - Len(t)) : SubSeq(s, i + 1, i + Len(t)) = t

\* /^[a-z]{2}$/.test(s)
IsTwoLetters(s) ==
    /\ Len(s) = 2
    /\ \A i \in 1..2 : \E j \in 1..Len(LowerCase) : LowerCase[j] = s[i]

\* the names a rate answers to: its location, then its aliases
NamesOf(rate) == <<rate.location>> \o rate.aliases

\* first pass of findPerDiemRate (lines 791-800)
ExactMatch(rate, normalizedLocation) ==
    \E k \in 1..Len(NamesOf(rate)) :
        toLowerCase(NamesOf(rate)[k]) = normalizedLocation

\* second pass of findPerDiemRate (lines 802-813)
SubstringMatch(rate, normalizedLocation) ==
    \E k \in 1..Len(NamesOf(rate)) :
        \/ includes(toLowerCase(NamesOf(rate)[k]), normalizedLocation)
        \/ includes(normalizedLocation, toLowerCase(NamesOf(rate)[k]))

\* variant: a two-letter query is not taken for a US state
IsUS_NoTwoLetters(normalizedLocation) ==
    \/ includes(normalizedLocation, <<"u", "s">>)
    \/ includes(normalizedLocation, <<"u", "n", "i", "t", "e", "d", " ", "s", "t", "a", "t", "e", "s">>)
    \/ includes(normalizedLocation, <<"a", "m", "e", "r", "i", "c", "a">>)

\* lines 815-818
IsUS(normalizedLocation) ==
    \/ includes(normalizedLocation, <<"u", "s">>)
    \/ includes(normalizedLocation, <<"u", "n", "i", "t", "e", "d", " ", "s", "t", "a", "t", "e", "s">>)
    \/ includes(normalizedLocation, <<"a", "m", "e", "r", "i", "c", "a">>)
    \/ IsTwoLetters(normalizedLocation)

\* PER_DIEM_RATES.find(r => r.isDefault && r.country === country)
DefaultRates(country) ==
    {i \in 1..Len(PER_DIEM_RATES) :
        PER_DIEM_RATES[i].isDefault /\ PER_DIEM_RATES[i].country = country}

\* variant: one pass over the table, a rate is returned as soon as it
\* matches exactly or by substring
findPerDiemRate_OnePass(loc) ==
    LET normalizedLocation == trim(toLowerCase(loc))
        matching == {i \in 1..Len(PER_DIEM_RATES) :
                        \/ ExactMatch(PER_DIEM_RATES[i], normalizedLocation)
                        \/ SubstringMatch(PER_DIEM_RATES[i], normalizedLocation)}
        wanted == DefaultRates(IF IsUS(normalizedLocation) THEN "US" ELSE "INTL")
    IN IF matching # {} THEN PER_DIEM_RATES[MinOf(matching)]
       ELSE IF wanted # {} THEN PER_DIEM_RATES[MinOf(wanted)]
       ELSE PER_DIEM_RATES[MinOf(DefaultRates("INTL"))]

\* findPerDiemRate(location), lines 788-825
findPerDiemRate(loc) ==
    LET normalizedLocation == trim(toLowerCase(loc))
        exact == {i \in 1..Len(PER_DIEM_RATES) :
                     ExactMatch(PER_DIEM_RATES[i], normalizedLocation)}
        partial == {i \in 1..Len(PER_DIEM_RATES) :
                       SubstringMatch(PER_DIEM_RATES[i], normalizedLocation)}
        wanted == DefaultRates(IF IsUS(normalizedLocation) THEN "US" ELSE "INTL")
    IN IF exact # {} THEN PER_DIEM_RATES[MinOf(exact)]
       ELSE IF partial # {} THEN PER_DIEM_RATES[MinOf(partial)]
       ELSE IF wanted # {} THEN PER_DIEM_RATES[MinOf(wanted)]
       ELSE PER_DIEM_RATES[MinOf(DefaultRates("INTL"))]

\* ------------------------------------------------------------------ dates
\* A date string is kept by its form and its fields; the year is 2024.  An
\* instant is a number of milliseconds since 2024-02-20T00:00:00Z.
DateOnly(month, day) ==
    [form |-> "YYYY-MM-DD", month |-> month, day |-> day, hour |-> 0]

DateTime(month, day, hour) ==
    [form |-> "YYYY-MM-DDTHH:00:00Z", month |-> month, day |-> day,
     hour |-> hour]

NotADate == [form |-> "not-a-date", month |-> 0, day |-> 0, hour |-> 0]

\* `const dayMs = 24 * 60 * 60 * 1000` (line 841)
dayMs == 24 * 60 * 60 * 1000

HourMs == 60 * 60 * 1000

NaN == -1

DaysInMonth(month) ==
    CASE month = 2 -> 29
      [] month \in {4, 6, 9, 11} -> 30
      [] OTHER -> 31

RECURSIVE DaysBefore(_)
DaysBefore(month) ==
    IF month = 1 THEN 0 ELSE DaysBefore(month - 1) + DaysInMonth(month - 1)

\* the day of the year 2024, from 1
DayOfYear(month, day) == DaysBefore(month) + day

EpochDay == DayOfYear(2, 20)

\* new Date(string).getTime(): a date-only string is UTC midnight
ParseDate(s) ==
    IF s.form \in {"YYYY-MM-DD", "YYYY-MM-DDTHH:00:00Z"}
      THEN (DayOfYear(s.month, s.day) - EpochDay) * dayMs + s.hour * HourMs
      ELSE NaN

isNaN(t) == t = NaN

\* variant: the day number is counted on within February
FormatDate_NoRollover(t) ==
    DateOnly(2, EpochDay + (t \div dayMs) - DaysBefore(2))

\* date.toISOString().split('T')[0]: the UTC calendar day of the instant
FormatDate(t) ==
    LET n == EpochDay + (t \div dayMs)
        month == CHOOSE m \in 1..12 :
                     DaysBefore(m) < n /\ n <= DaysBefore(m) + DaysInMonth(m)
    IN DateOnly(month, n - DaysBefore(month))

\* Math.round(num / den) for num >= 0: halves round up
MathRound(num, den) == (2 * num + den) \div (2 * den)

\* line 842
TotalDays(start, end) == MathRound(end - start, dayMs) + 1

\* variant: equal dates are rejected too
EndBeforeStart_OrEqual(start, end) == end <= start

\* line 836: `end < start`
EndBeforeStart(start, end) == end < start

\* lines 852-864: the type of the day at dayIndex
DayTypeOf(totalDays, dayIndex) ==
    IF totalDays = 1 THEN "first"
    ELSE IF dayIndex = 0 THEN "first"
    ELSE IF dayIndex = totalDays - 1 THEN "last"
    ELSE "full"

\* variant: the last day is paid at the full rate
DayRateOf_LastFull(rate, totalDays, dayIndex) ==
    IF totalDays = 1 THEN rate.partialDay
    ELSE IF dayIndex = 0 THEN rate.partialDay
    ELSE rate.fullDay

\* variant: a single day is paid at the full rate
DayRateOf_SingleFull(rate, totalDays, dayIndex) ==
    IF totalDays = 1 THEN rate.fullDay
    ELSE IF dayIndex = 0 THEN rate.partialDay
    ELSE IF dayIndex = totalDays - 1 THEN rate.partialDay
    ELSE rate.fullDay

\* lines 852-864: the rate of the day at dayIndex
DayRateOf(rate, totalDays, dayIndex) ==
    IF totalDays = 1 THEN rate.partialDay
    ELSE IF dayIndex = 0 THEN rate.partialDay
    ELSE IF dayIndex = totalDays - 1 THEN rate.partialDay
    ELSE rate.fullDay

\* the while loop of lines 847-875
RECURSIVE BreakdownLoop(_, _, _, _, _, _)
BreakdownLoop(currentDate, end, dayIndex, totalDays, rate, breakdown) ==
    IF currentDate <= end
      THEN BreakdownLoop(currentDate + dayMs, end, dayIndex + 1, totalDays,
                         rate,
                         Append(breakdown,
                                [date |-> FormatDate(currentDate),
                                 dayType |-> DayTypeOf(totalDays, dayIndex),
                                 rate |-> DayRateOf(rate, totalDays, dayIndex),
                                 location |-> rate.location]))
      ELSE breakdown

\* breakdown.reduce((sum, d) => sum + d.rate, 0)
RECURSIVE SumRates(_)
SumRates(breakdown) ==
    IF breakdown = <<>> THEN 0
    ELSE SumRates(SubSeq(breakdown, 1, Len(breakdown) - 1))
         + breakdown[Len(breakdown)].rate

CountDays(breakdown, types) ==
    Cardinality({i \in 1..Len(breakdown) : breakdown[i].dayType \in types})

InvalidDateFormat ==
    [kind |-> "Error", message |-> "Invalid date format. Use YYYY-MM-DD."]

EndBeforeStartError ==
    [kind |-> "Error", message |-> "End date must be after start date."]

\* calculatePerDiem(startDate, endDate, location), lines 827-893: the
\* calculation it returns or the error it throws
calculatePerDiem(start_date, end_date, loc) ==
    LET rate == findPerDiemRate(loc)
        start == ParseDate(start_date)
        end == ParseDate(end_date)
        totalDays == TotalDays(start, end)
        breakdown == BreakdownLoop(start, end, 0, totalDays, rate, <<>>)
    IN IF isNaN(start) \/ isNaN(end) THEN InvalidDateFormat
       ELSE IF EndBeforeStart(start, end) THEN EndBeforeStartError
       ELSE [kind |-> "PerDiemCalculation",
             location |-> rate.location,
             startDate |-> start_date,
             endDate |-> end_date,
             totalDays |-> totalDays,
             fullDays |-> CountDays(breakdown, {"full"}),
             partialDays |-> CountDays(breakdown, {"first", "last"}),
             fullDayRate |-> rate.fullDay,
             partialDayRate |-> rate.partialDay,
             totalAmount |-> SumRates(breakdown),
             breakdown |-> breakdown]

\* ----------------------------------------------------------------- inputs
\* the first day of the date strings tried
FirstDay == DayOfYear(2, 28)

\* the hours of the date-time strings tried
Hours == {6, 12, 18}

DayStrings ==
    {FormatDate((FirstDay - EpochDay + k) * dayMs) : k \in 0..MaxSpan}

DateStrings ==
    DayStrings
    \cup {DateTime(d.month, d.day, h) : d \in DayStrings, h \in Hours}
    \cup {NotADate}

Queries ==
    { <<"N", "Y", "C">>,
      <<"n", "y", "c">>,
      <<" ", "B", "o", "s", "t", "o", "n", " ">>,
      <<"B", "o", "s", "t", "o", "n">>,
      <<"O", "t", "h", "e", "r">>,
      <<"P", "a", "r", "i", "s">>,
      <<"x", "y">>,
      <<"Z", "u", "r", "i", "c", "h", " ", "A", "i", "r", "p", "o", "r", "t">>,
      <<"S", "F">>,
      <<"L", "o", "n", "d", "o", "n">>,
      <<"D", "e", "n", "m", "a", "r", "k">>,
      <<"L", "a", "t", "i", "n", " ", "A", "m", "e", "r", "i", "c", "a">> }

\* ---------------------------------------------------------------- actions
\* the parameters createPerDiemExpenses passes to createExpense for a day
ExpenseOf(d) ==
    [transactionDate |-> d.date, transactionAmount |-> d.rate,
     currencyCode |-> "USD", dayType |-> d.dayType]

\* The calculate_per_diem tool: calculatePerDiem is synchronous, and the
\* tool may be called again with the same arguments.
CalculatePerDiem ==
    /\ pdPc \in {"idle", "calculated"}
    /\ calculation' = calculatePerDiem(startDate, endDate, location)
    /\ pdPc' = "calculated"
    /\ UNCHANGED <<startDate, endDate, location, createExpenseCalls,
                   expenses, entries, batchResult>>
    /\ UNCHANGED <<clientVars, domainOp, httpServer>>

\* createPerDiemExpenses up to its first suspension (lines 903-911): the
\* calculation, then the first call of createExpense.
CreatePerDiemExpenses ==
    /\ pdPc = "idle"
    /\ LET c == calculatePerDiem(startDate, endDate, location)
       IN IF c.kind = "Error"
            THEN /\ pdPc' = "failed"
                 /\ batchResult' = c
                 /\ UNCHANGED <<calculation, createExpenseCalls>>
            ELSE /\ calculation' = c
                 /\ IF c.breakdown = <<>>
                      THEN /\ pdPc' = "returned"
                           /\ batchResult' = [kind |-> "Batch",
                                              calculation |-> c,
                                              expenses |-> <<>>]
                           /\ UNCHANGED createExpenseCalls
                      ELSE /\ pdPc' = "creating"
                           /\ createExpenseCalls' =
                                 <<ExpenseOf(c.breakdown[1])>>
                           /\ UNCHANGED batchResult
    /\ UNCHANGED <<startDate, endDate, location, expenses, entries>>
    /\ UNCHANGED <<clientVars, domainOp, httpServer>>

\* createExpense resolves: the entry exists on the server, the loop pushes
\* the expense and calls createExpense for the next day, or returns.
CreateExpenseReturns ==
    /\ pdPc = "creating"
    /\ entries' = Append(entries, Last(createExpenseCalls))
    /\ expenses' = Append(expenses, [ID |-> Len(entries) + 1])
    /\ IF Len(expenses') < Len(calculation.breakdown)
         THEN /\ createExpenseCalls' =
                    Append(createExpenseCalls,
                           ExpenseOf(calculation.breakdown[Len(expenses') + 1]))
              /\ UNCHANGED <<pdPc, batchResult>>
         ELSE /\ pdPc' = "returned"
              /\ batchResult' = [kind |-> "Batch",
                                 calculation |-> calculation,
                                 expenses |-> expenses']
              /\ UNCHANGED createExpenseCalls
    /\ UNCHANGED <<startDate, endDate, location, calculation>>
    /\ UNCHANGED <<clientVars, domainOp, httpServer>>

\* variant: the entries created so far are deleted when a later one fails
EntriesAfterFailure_RolledBack(created) == <<>>

\* createPerDiemExpenses, lines 909-921: the loop has no catch clause and
\* no compensation, the entries created so far stay on the server
EntriesAfterFailure(created) == created

\* createExpense rejects: nothing catches the error in createPerDiemExpenses.
CreateExpenseThrows ==
    /\ pdPc = "creating"
    /\ pdPc' = "failed"
    /\ batchResult' = [kind |-> "Error", message |-> "createExpense failed"]
    /\ entries' = EntriesAfterFailure(entries)
    /\ UNCHANGED <<startDate, endDate, location, calculation,
                   createExpenseCalls, expenses>>
    /\ UNCHANGED <<clientVars, domainOp, httpServer>>

\* one service with a token held, no request running
ClientIdle ==
    /\ accessToken = ConfigToken
    /\ refreshToken = Null
    /\ clientId = FALSE
    /\ clientSecret = FALSE
    /\ tokenRefreshInProgress = FALSE
    /\ pc = [p \in Procs |-> "idle"]
    /\ retryOn401 = [p \in Procs |-> TRUE]
    /\ headers = [p \in Procs |-> Null]
    /\ calls = [p \in Procs |-> <<>>]
    /\ result = [p \in Procs |-> NoResult]
    /\ nExchanges = 0
    /\ nRequests = 0
    /\ replaced = {}
    /\ lastTokenResponse = [access_token |-> Null, refresh_token |-> Null]
    /\ options = [p \in Procs |-> Null]
    /\ response = [p \in Procs |-> NoResponse]

\* every call of calculatePerDiem or createPerDiemExpenses with the inputs
\* tried
PdInit ==
    /\ ClientIdle
    /\ startDate \in DateStrings
    /\ endDate \in DateStrings
    /\ location \in Queries
    /\ PerDiemIdle
    /\ domainOp = NoOperation
    /\ httpServer = NoServer

PdNext ==
    \/ CalculatePerDiem
    \/ CreatePerDiemExpenses
    \/ CreateExpenseReturns
    \/ CreateExpenseThrows

PdSpec == PdInit /\ [][PdNext]_vars


\* ====================================================== domain operations
\* A domain operation awaits fetchWithRetry once or several times.  Each
\* request either resolves with the data of the response or rejects with an
\* error of the request client.
NoData == [expenseTypes |-> {}, paymentTypes |-> {}]

Request(context, method) ==
    [context |-> context, method |-> method, body |-> NoFields,
     outcome |-> "pending", data |-> NoData, error |-> NoResult]

\* the errors fetchWithRetry throws
ClientFailures(context) ==
    { handleApiError(HttpResponse(403, UnparseableBody), context),
      RefreshError, ConfigError, NetworkError }

\* the expenseTypeCode argument of createExpense
ExpenseTypeCode == "MEALN"

\* what GET expensegroupconfigurations returns: the codes of the expense
\* types and the IDs of the payment types of the group
Configurations ==
    {[expenseTypes |-> et, paymentTypes |-> pt] :
        et \in {{}, {ExpenseTypeCode}}, pt \in {{}, {"CASH"}}}

OperationNames ==
    {"getReports", "getExpenseTypes", "getPaymentTypes", "createExpense"}

\* createExpense, lines 249-254
InvalidExpenseTypeCode ==
    [kind |-> "Error", status |-> 0,
     message |-> <<"Invalid ExpenseTypeCode: ">>]

\* resolvePaymentTypeId, line 463
NoPaymentTypes ==
    [kind |-> "Error", status |-> 0,
     message |-> <<"No payment types available. Cannot create expense without PaymentTypeID.">>]

\* updateExpense, lines 317-327: the fields copied from the fetched expense
WritableFields ==
    {"TransactionDate", "ExpenseTypeCode", "TransactionAmount",
     "TransactionCurrencyCode", "VendorDescription", "Description",
     "Comment", "PaymentTypeID", "ReportID", "LocationID",
     "IsBillable", "IsPersonal"}
    \cup {"Custom1", "Custom2", "Custom3", "Custom4", "Custom5", "Custom6",
          "Custom7", "Custom8", "Custom9", "Custom10", "Custom11",
          "Custom12", "Custom13", "Custom14", "Custom15", "Custom16",
          "Custom17", "Custom18", "Custom19", "Custom20", "Custom21",
          "Custom22", "Custom23", "Custom24"}

\* lines 329-334: `if (existing[field] !== undefined) body[field] = ...`
Retained(existing) ==
    [f \in (DOMAIN existing) \cap WritableFields |-> existing[f]]

\* lines 337-343 in order: the update field tested and the body field written
UpdateFields ==
    << <<"transactionDate", "TransactionDate">>,
       <<"expenseTypeCode", "ExpenseTypeCode">>,
       <<"businessPurpose", "Description">>,
       <<"vendorDescription", "VendorDescription">>,
       <<"transactionAmount", "TransactionAmount">>,
       <<"currencyCode", "TransactionCurrencyCode">>,
       <<"reportId", "ReportID">> >>

\* `if (updates.x)`: the field is present and its value is truthy, that is
\* not 0 for the amount and not the empty string for the others
Truthy(updates, u) ==
    /\ u \in DOMAIN updates
    /\ IF u = "transactionAmount" THEN updates[u] # 0 ELSE updates[u] # ""

\* `body.F = value`
SetField(body, field, value) ==
    [f \in (DOMAIN body) \cup {field} |->
        IF f = field THEN value ELSE body[f]]

RECURSIVE ApplyUpdates(_, _, _)
ApplyUpdates(body, updates, i) ==
    IF i > Len(UpdateFields) THEN body
    ELSE ApplyUpdates(IF Truthy(updates, UpdateFields[i][1])
                        THEN SetField(body, UpdateFields[i][2],
                                      updates[UpdateFields[i][1]])
                        ELSE body,
                      updates, i + 1)

\* the body of the PUT of updateExpense
UpdateBody(existing, updates) ==
    ApplyUpdates(Retained(existing), updates, 1)

\* the fetched expenses tried: the one of the test suite and one with a
\* description and no vendor
Expenses ==
    { [ID |-> "exp-1", TransactionDate |-> "2024-01-15",
       TransactionAmount |-> 5000, VendorDescription |-> "Old Vendor"],
      [ID |-> "exp-2", TransactionAmount |-> 5000,
       Description |-> "Old purpose", URI |-> "https://..."] }

\* the updates tried: each of three fields absent or present, the amount
\* with 0 or 75.00, the vendor with "" or a name
Updates ==
    { amount @@ vendor @@ purpose :
        amount \in {NoFields} \cup
                   {[f \in {"transactionAmount"} |-> v] : v \in {0, 7500}},
        vendor \in {NoFields} \cup
                   {[f \in {"vendorDescription"} |-> v] :
                       v \in {"", "New Vendor"}},
        purpose \in {NoFields} \cup
                    {[f \in {"businessPurpose"} |-> v] : v \in {"Trip"}} }

\* the operation suspends on `await this.fetchWithRetry(...)`
Await(op, position, context, method) ==
    [op EXCEPT !.pc = position, !.requests = Append(@, Request(context, method))]

Return(op, value) ==
    [op EXCEPT !.pc = "returned",
               !.result = [kind |-> "returned", value |-> value]]

Throw(op, error) ==
    [op EXCEPT !.pc = "threw", !.result = error]

\* createExpense, lines 262-310: the location search when a city and no
\* location ID is given, else the POST of the entry
AfterPaymentType(op) ==
    IF op.locationCity
      THEN Await(op, "searchLocations", "searchLocations", "GET")
      ELSE Await(op, "post", "createExpense", "POST")

\* variant: the payment type is not resolved
AfterValidation_NoPaymentType(op) == AfterPaymentType(op)

\* createExpense, lines 257-260: the payment type is resolved when no ID is
\* given
AfterValidation(op) ==
    IF ~op.paymentTypeId
      THEN Await(op, "resolvePaymentTypeId",
                 "getExpenseGroupConfigurations", "GET")
      ELSE AfterPaymentType(op)

\* the catch clauses of getExpenseTypes (lines 413-416) and getPaymentTypes
\* (lines 441-444): the error is logged and an empty list is returned
Caught(op, error) == Return(op, {})

\* the operation resumes after its request: ok tells whether fetchWithRetry
\* resolved, data is the parsed body, error is what it threw
Resumed(op, ok, data, error) ==
    CASE op.pc = "getReports" ->
           IF ok THEN Return(op, "Items") ELSE Throw(op, error)
      [] op.pc = "getExpenseTypes" ->
           IF ok THEN Return(op, data.expenseTypes) ELSE Caught(op, error)
      [] op.pc = "getPaymentTypes" ->
           IF ok THEN Return(op, data.paymentTypes) ELSE Caught(op, error)
      [] op.pc = "validateExpenseTypeCode" ->
           LET expenseTypes == IF ok THEN data.expenseTypes ELSE {}
           IN IF ExpenseTypeCode \in expenseTypes
                THEN AfterValidation(op)
                ELSE Await(op, "validTypes",
                           "getExpenseGroupConfigurations", "GET")
      [] op.pc = "validTypes" -> Throw(op, InvalidExpenseTypeCode)
      [] op.pc = "resolvePaymentTypeId" ->
           LET paymentTypes == IF ok THEN data.paymentTypes ELSE {}
           IN IF paymentTypes = {} THEN Throw(op, NoPaymentTypes)
                                   ELSE AfterPaymentType(op)
      [] op.pc = "searchLocations" ->
           IF ok THEN Await(op, "post", "createExpense", "POST")
                 ELSE Throw(op, error)
      [] op.pc = "post" ->
           IF ok THEN Return(op, "entry") ELSE Throw(op, error)
      [] op.pc = "getExpenseDetails" -> Throw(op, error)
      [] op.pc = "put" ->
           IF ok THEN Return(op, "true") ELSE Throw(op, error)

\* A tool handler calls a domain operation, which runs up to its first
\* request.  getReports stands for the operations that await one request and
\* have no catch clause.
CallOperation(name, paymentTypeId, locationCity) ==
    /\ domainOp.pc = "idle"
    /\ name \in OperationNames
    /\ name # "createExpense" => ~paymentTypeId /\ ~locationCity
    /\ LET op == [NoOperation EXCEPT !.name = name,
                                     !.paymentTypeId = paymentTypeId,
                                     !.locationCity = locationCity]
       IN domainOp' =
            CASE name = "getReports" ->
                   Await(op, "getReports", "getReports", "GET")
              [] name = "getExpenseTypes" ->
                   Await(op, "getExpenseTypes",
                         "getExpenseGroupConfigurations", "GET")
              [] name = "getPaymentTypes" ->
                   Await(op, "getPaymentTypes",
                         "getExpenseGroupConfigurations", "GET")
              [] name = "createExpense" ->
                   Await(op, "validateExpenseTypeCode",
                         "getExpenseGroupConfigurations", "GET")
    /\ UNCHANGED <<clientVars, perDiemVars, httpServer>>

\* updateExpense(expenseId, updates) up to its first suspension: the GET of
\* getExpenseDetails (line 314).
UpdateExpense(updates) ==
    /\ domainOp.pc = "idle"
    /\ domainOp' = Await([NoOperation EXCEPT !.name = "updateExpense",
                                             !.updates = updates],
                         "getExpenseDetails", "getExpenseDetails", "GET")
    /\ UNCHANGED <<clientVars, perDiemVars, httpServer>>

\* getExpenseDetails returns the fetched expense: updateExpense builds the
\* body and issues the PUT (lines 316-352).
GetExpenseDetailsReturns(existing) ==
    /\ domainOp.pc = "getExpenseDetails"
    /\ LET settled == [domainOp EXCEPT
                          !.existing = existing,
                          !.requests =
                             SetLast(@, [Last(@) EXCEPT !.outcome = "ok"])]
       IN domainOp' =
            [settled EXCEPT
               !.pc = "put",
               !.requests =
                  Append(@, [Request("updateExpense", "PUT") EXCEPT
                                !.body = UpdateBody(existing,
                                                    domainOp.updates)])]
    /\ UNCHANGED <<clientVars, perDiemVars, httpServer>>

\* fetchWithRetry resolves and the operation goes on with the parsed body.
RequestResolves(data) ==
    /\ domainOp.pc \notin {"idle", "returned", "threw", "getExpenseDetails"}
    /\ LET settled == [domainOp EXCEPT !.requests =
                          SetLast(@, [Last(@) EXCEPT !.outcome = "ok",
                                                     !.data = data])]
       IN domainOp' = Resumed(settled, TRUE, data, NoResult)
    /\ UNCHANGED <<clientVars, perDiemVars, httpServer>>

\* fetchWithRetry rejects with an error of the request client.
RequestRejects(error) ==
    /\ domainOp.pc \notin {"idle", "returned", "threw"}
    /\ error \in ClientFailures(Last(domainOp.requests).context)
    /\ LET settled == [domainOp EXCEPT !.requests =
                          SetLast(@, [Last(@) EXCEPT !.outcome = "error",
                                                     !.error = error])]
       IN domainOp' = Resumed(settled, FALSE, NoData, error)
    /\ UNCHANGED <<clientVars, perDiemVars, httpServer>>

OpInit ==
    /\ ClientIdle
    /\ startDate = NoInput
    /\ endDate = NoInput
    /\ location = <<>>
    /\ PerDiemIdle
    /\ domainOp = NoOperation
    /\ httpServer = NoServer

OpNext ==
    \/ \E name \in OperationNames : \E paymentTypeId, locationCity \in BOOLEAN :
          CallOperation(name, paymentTypeId, locationCity)
    \/ \E data \in Configurations : RequestResolves(data)
    \/ \E updates \in Updates : UpdateExpense(updates)
    \/ \E existing \in Expenses : GetExpenseDetailsReturns(existing)
    \/ \E context \in {"getReports", "getExpenseGroupConfigurations",
                       "searchLocations", "createExpense",
                       "getExpenseDetails", "updateExpense"} :
          \E error \in ClientFailures(context) : RequestRejects(error)

\* One domain operation, every outcome of each of its requests.
OpSpec == OpInit /\ [][OpNext]_vars


\* ------------------------------------------------------- the HTTP server
\* runHttpServer keeps one map, transports, from session id to transport.
\* httpServer.opened counts the SSE connections accepted so far; the n-th
\* connection's transport carries session id n (a fresh id per transport).
\* httpServer.open holds the connections that have not closed,
\* httpServer.transports the keys of the map (the value under key n is the
\* transport of connection n), httpServer.connected the sessions whose
\* server.connect has resolved, httpServer.posts the answered POSTs.

\* the sessionId query values tried: 0 is a value no transport carries
\* (a missing or made-up sessionId), the others are ids a transport may get
SessionIds == 0..MaxSessions

NoTransport == 0

\* transports.delete(transport.sessionId), in the close handler
TransportsAfterClose_Kept(map, sessionId) == map

TransportsAfterClose(map, sessionId) == map \ {sessionId}

\* transports.get(sessionId)
TransportsGet(map, sessionId) ==
    IF sessionId \in map THEN sessionId ELSE NoTransport

\* GET /sse up to its await: the transport is created and put in the map,
\* the server is created, the close handler is registered, server.connect
\* is called
GetSse ==
    /\ httpServer.opened < MaxSessions
    /\ LET sessionId == httpServer.opened + 1
       IN httpServer' = [httpServer EXCEPT
              !.opened = sessionId,
              !.open = @ \cup {sessionId},
              !.transports = @ \cup {sessionId}]
    /\ UNCHANGED <<clientVars, perDiemVars, domainOp>>

\* await server.connect(transport) resolves
ServerConnected(sessionId) ==
    /\ sessionId \in 1..httpServer.opened
    /\ sessionId \notin httpServer.connected
    /\ httpServer' = [httpServer EXCEPT !.connected = @ \cup {sessionId}]
    /\ UNCHANGED <<clientVars, perDiemVars, domainOp>>

\* the response of an SSE connection emits "close"; the handler runs
SseClose(sessionId) ==
    /\ sessionId \in httpServer.open
    /\ httpServer' = [httpServer EXCEPT
           !.open = @ \ {sessionId},
           !.transports = TransportsAfterClose(@, sessionId)]
    /\ UNCHANGED <<clientVars, perDiemVars, domainOp>>

\* POST /messages?sessionId=...
PostMessages(sessionId) ==
    /\ Len(httpServer.posts) < MaxPosts
    /\ LET transport == TransportsGet(httpServer.transports, sessionId)
           answer ==
               IF transport = NoTransport
               THEN [sessionId |-> sessionId, status |-> 400,
                     error |-> "No active session",
                     transport |-> NoTransport]
               ELSE [sessionId |-> sessionId, status |-> 0, error |-> "",
                     transport |-> transport]
       IN httpServer' = [httpServer EXCEPT !.posts = Append(@, answer)]
    /\ UNCHANGED <<clientVars, perDiemVars, domainOp>>

HttpInit ==
    /\ ClientIdle
    /\ startDate = NoInput
    /\ endDate = NoInput
    /\ location = <<>>
    /\ PerDiemIdle
    /\ domainOp = NoOperation
    /\ httpServer = NoServer

HttpNext ==
    \/ GetSse
    \/ \E sessionId \in 1..MaxSessions : ServerConnected(sessionId)
    \/ \E sessionId \in 1..MaxSessions : SseClose(sessionId)
    \/ \E sessionId \in SessionIds : PostMessages(sessionId)

\* SSE connects, closes and POSTs to /messages in every order.
HttpSpec == HttpInit /\ [][HttpNext]_vars


\* ----------------------------------------------------------- vocabulary
Finished(p) == pc[p] \in {"done", "failed"}

ResourceCalls(p) == {i \in 1..Len(calls[p]) : calls[p][i].kind = "resource"}

RefreshesOn401(p) ==
    {i \in 1..Len(calls[p]) :
        calls[p][i].kind = "token" /\ calls[p][i].path = "401"}

Contains(message, part) == \E i \in 1..Len(message) : message[i] = part

\* a resource response has just been handled by request p in this step
Answered(p) == pc[p] = "awaitResponse" /\ pc'[p] # "awaitResponse"

\* the status of the response handled in this step
AnsweredStatus(p) == calls'[p][Len(calls[p])].status

\* the request's result is the outcome of resource call c
ResultIsOutcomeOf(p, c) ==
    IF c.outcome = "neterr"
      THEN pc[p] = "failed" /\ result[p].kind = "NetworkError"
      ELSE IF c.status >= 200 /\ c.status <= 299
      THEN pc[p] = "done" /\ result[p].kind = "Response"
      ELSE /\ pc[p] = "failed"
           /\ result[p].kind = "ApiError"
           /\ result[p].status = c.status

\* ------------------------------------------------------------------- C1
C1_RefreshStarts ==
    \A p \in Procs :
        (/\ Answered(p)
         /\ Len(calls[p]) = 1
         /\ AnsweredStatus(p) = 401
         /\ refreshToken # Null /\ clientId /\ clientSecret
         /\ ~tokenRefreshInProgress)
        => /\ Len(calls'[p]) = 2
           /\ calls'[p][2].kind = "token"
           /\ calls'[p][2].grant = "refresh_token"
           /\ calls'[p][2].outcome = "pending"

C1_ThreeCalls ==
    \A p \in Procs :
        (/\ Finished(p)
         /\ Len(calls[p]) >= 2
         /\ calls[p][1].kind = "resource"
         /\ calls[p][1].status = 401
         /\ calls[p][2].kind = "token"
         /\ calls[p][2].outcome = "ok")
        => /\ Len(calls[p]) = 3
           /\ calls[p][3].kind = "resource"
           /\ ResultIsOutcomeOf(p, calls[p][3])

\* C1: a logical request that starts with an access token held (its first
\* network call is the resource request), has refreshToken, clientId and
\* clientSecret configured, sees no refresh in progress and is answered 401
\* issues a token-endpoint refresh next; when that exchange succeeds the
\* request makes exactly 3 network calls (resource, refresh, resource) and
\* its result is the outcome of the retried resource call.
C1_ThreeCallsOn401 == [][C1_RefreshStarts]_vars /\ []C1_ThreeCalls

C1_Witness ==
    \E p \in Procs :
        /\ pc[p] = "done"
        /\ Len(calls[p]) = 3
        /\ calls[p][1].kind = "resource" /\ calls[p][1].status = 401
        /\ calls[p][2].kind = "token" /\ calls[p][2].outcome = "ok"
        /\ calls[p][3].kind = "resource" /\ calls[p][3].status = 200

\* ------------------------------------------------------------------- C2
\* C2: when a resource response is 401 and refreshToken, clientId or
\* clientSecret is missing, the request has failed with an ApiError whose
\* message contains "401", and the 401 response is the last network call of
\* the request (no token-endpoint call, no retried resource call).
C2_No401RetryWithoutCredentials ==
    \A p \in Procs :
        \A i \in 1..Len(calls[p]) :
            (/\ calls[p][i].kind = "resource"
             /\ calls[p][i].status = 401
             /\ (refreshToken = Null \/ ~clientId \/ ~clientSecret))
            => /\ i = Len(calls[p])
               /\ pc[p] = "failed"
               /\ result[p].kind = "ApiError"
               /\ Contains(result[p].message, "401")

C2_Witness ==
    \E p \in Procs :
        /\ pc[p] = "failed"
        /\ refreshToken = Null
        /\ Len(calls[p]) = 1
        /\ calls[p][1].kind = "resource" /\ calls[p][1].status = 401
        /\ Contains(result[p].message, "401")

\* ------------------------------------------------------------------- C3
C3_Bounded ==
    \A p \in Procs :
        /\ Cardinality(RefreshesOn401(p)) <= 1
        /\ Cardinality(ResourceCalls(p)) <= 2
        /\ \A i \in ResourceCalls(p) :
              (/\ Cardinality(ResourceCalls(p)) = 2
               /\ \E j \in ResourceCalls(p) : j < i
               /\ calls[p][i].status = 401)
              => /\ i = Len(calls[p])
                 /\ pc[p] = "failed"
                 /\ result[p].kind = "ApiError"
                 /\ result[p].status = 401

\* no request is running
Quiescent == \A p \in Procs : pc[p] \in {"idle", "done", "failed"}

\* finitely many requests are started in a behaviour, so every started
\* request ends exactly when the service eventually stays quiescent
C3_Terminates == <>[]Quiescent

\* C3: whatever the server answers, one logical request performs at most one
\* 401-triggered refresh and at most two resource requests; a 401 on the
\* retried request is thrown as an ApiError with no further call; and every
\* started request ends once its network calls have returned.
C3_OneRefreshOneRetry == []C3_Bounded /\ C3_Terminates

C3_Witness ==
    \E p \in Procs :
        /\ pc[p] = "failed"
        /\ Len(calls[p]) = 3
        /\ Cardinality(ResourceCalls(p)) = 2
        /\ Cardinality(RefreshesOn401(p)) = 1
        /\ calls[p][3].status = 401
        /\ result[p].kind = "ApiError"

\* ------------------------------------------------------------------- C4
TokenCallsInFlight ==
    {p \in Procs : pc[p] \in {"refreshFromEnsure", "refreshFrom401", "authenticate"}}

\* C4: in every interleaving of concurrent logical requests at most one
\* token-endpoint call is in flight at any time, whether it was started from
\* the 401 branch or from ensureToken.
C4_OneTokenCallInFlight == Cardinality(TokenCallsInFlight) <= 1

\* ------------------------------------------------------------------- C5
\* every successful refresh so far supplied a new refresh token (a
\* configuration with a refresh token never uses client_credentials, so all
\* of its granted exchanges are refreshes)
ProviderRotated == refreshToken # Null => Cardinality(replaced) = nExchanges

RefreshExchanges ==
    {pi \in Procs \X (1..4) :
        /\ pi[2] <= Len(calls[pi[1]])
        /\ calls[pi[1]][pi[2]].grant = "refresh_token"}

\* C5: with a provider that rotates the refresh token on every successful
\* exchange, no two token exchanges carrying the same refresh token value
\* are issued.
C5_NoDoubleSpend ==
    ProviderRotated =>
        \A x \in RefreshExchanges : \A y \in RefreshExchanges :
            x # y => calls[x[1]][x[2]].sentRefresh # calls[y[1]][y[2]].sentRefresh

\* ------------------------------------------------------------------- C6
C6_Step ==
    \A p \in Procs :
        (/\ Answered(p)
         /\ AnsweredStatus(p) = 401
         /\ tokenRefreshInProgress)
        => /\ pc'[p] = "failed"
           /\ Len(calls'[p]) = Len(calls[p])
           /\ result'[p].kind = "ApiError"
           /\ result'[p].status = 401
           /\ tokenRefreshInProgress'

\* C6: a request answered 401 while tokenRefreshInProgress is true does not
\* wait for the refresh (it ends in the step that handles the response),
\* issues no token-endpoint call and no retry, and fails with the ApiError
\* of its own 401 response.
C6_No401RetryDuringRefresh == [][C6_Step]_vars

C6_Witness ==
    \E p \in Procs : \E q \in Procs \ {p} :
        /\ pc[q] = "refreshFrom401"
        /\ tokenRefreshInProgress
        /\ pc[p] = "failed"
        /\ retryOn401[p]
        /\ Len(calls[p]) = 1
        /\ calls[p][1].status = 401
        /\ result[p].kind = "ApiError"

\* ------------------------------------------------------------------- C7
\* a refresh_token exchange of request p is granted in this step
Granted(p) ==
    /\ pc[p] \in {"refreshFromEnsure", "refreshFrom401"}
    /\ pc'[p] \in {"ensured", "refreshed"}

C7_Step ==
    \A p \in Procs :
        Granted(p) =>
            /\ accessToken' = lastTokenResponse'.access_token
            /\ lastTokenResponse'.refresh_token # Null
                  => refreshToken' = lastTokenResponse'.refresh_token
            /\ lastTokenResponse'.refresh_token = Null
                  => refreshToken' = refreshToken

\* C7: a successful refresh stores the response's access_token, and stores
\* the response's refresh_token if and only if the response supplies one;
\* otherwise the stored refresh token is unchanged.
C7_RefreshStoresTokens == [][C7_Step]_vars

C7_Witness ==
    \E p \in Procs :
        /\ pc[p] = "refreshed"
        /\ lastTokenResponse.refresh_token = Null
        /\ accessToken = lastTokenResponse.access_token
        /\ accessToken # ConfigToken
        /\ refreshToken = ConfigToken

\* ------------------------------------------------------------------- C8
\* request p starts a refresh_token exchange in this step
StartsRefresh(p) ==
    /\ pc[p] \notin {"refreshFromEnsure", "refreshFrom401"}
    /\ pc'[p] \in {"refreshFromEnsure", "refreshFrom401"}

C8_Step ==
    \A p \in Procs :
        StartsRefresh(p) =>
            /\ Last(calls'[p]).sentRefresh = refreshToken
            /\ Last(calls'[p]).sentRefresh \notin replaced

\* C8: once a successful refresh has replaced the stored refresh token,
\* every token exchange started afterwards sends the refresh token stored
\* at that time, never a value that has been replaced.
C8_RefreshUsesNewToken == [][C8_Step]_vars

C8_Witness ==
    \E p \in Procs :
        /\ pc[p] \in {"refreshFromEnsure", "refreshFrom401"}
        /\ replaced = {ConfigToken}
        /\ Last(calls[p]).sentRefresh = refreshToken
        /\ Last(calls[p]).sentRefresh # ConfigToken

\* ------------------------------------------------------------------- C9
C9_Step ==
    \A p \in Procs :
        /\ (pc[p] = "refreshFrom401" /\ pc'[p] # "refreshFrom401"
              /\ Last(calls'[p]).outcome = "rejected")
           => /\ pc'[p] = "refreshThrew"
              /\ UNCHANGED <<accessToken, refreshToken>>
        /\ (pc[p] = "refreshThrew" /\ pc'[p] # "refreshThrew"
              /\ Last(calls[p]).outcome = "rejected")
           => /\ pc'[p] = "failed"
              /\ result'[p].kind = "RefreshError"
              /\ calls'[p] = calls[p]
              /\ UNCHANGED <<accessToken, refreshToken>>
              /\ ~tokenRefreshInProgress'

C9_Final ==
    \A p \in Procs :
        (/\ Finished(p)
         /\ \E i \in RefreshesOn401(p) : calls[p][i].outcome = "rejected")
        => /\ pc[p] = "failed"
           /\ result[p].kind = "RefreshError"
           /\ Last(calls[p]).kind = "token"
           /\ Cardinality(ResourceCalls(p)) = 1

\* C9: when the token exchange triggered by a 401 is rejected, the request
\* fails with the refresh error and not with the 401 ApiError, the resource
\* request is not retried, the steps that handle the rejection leave the
\* stored access and refresh tokens unchanged, and tokenRefreshInProgress is
\* false when the error leaves fetchWithRetry.
C9_RejectedRefresh == [][C9_Step]_vars /\ []C9_Final

C9_Witness ==
    \E p \in Procs :
        /\ pc[p] = "failed"
        /\ result[p].kind = "RefreshError"
        /\ Len(calls[p]) = 2
        /\ calls[p][1].status = 401
        /\ calls[p][2].path = "401"
        /\ calls[p][2].outcome = "rejected"
        /\ ~tokenRefreshInProgress

\* ------------------------------------------------------------------ C10
\* request p sends a resource request in this step
Sends(p) == pc[p] = "headersReady" /\ pc'[p] = "awaitResponse"

C10_SentIsStored ==
    \A p \in Procs :
        Sends(p) => /\ Last(calls'[p]).bearer # Null
                    /\ Last(calls'[p]).bearer = accessToken

C10_RetryCarriesNewToken ==
    \A p \in Procs :
        \A i \in RefreshesOn401(p) : \A j \in ResourceCalls(p) :
            (i < j /\ calls[p][i].outcome = "ok")
            => /\ calls[p][j].bearer >= calls[p][i].respAccess
               /\ calls[p][j].bearer # calls[p][1].bearer

\* C10 as stated: every resource request carries the non-null access token
\* stored at the moment of sending, and the retried request after a
\* 401-triggered refresh carries the token that refresh installed or a newer
\* one, never the rejected token.
C10_BearerIsStoredToken ==
    [][C10_SentIsStored]_vars /\ []C10_RetryCarriesNewToken

C10_SentIsRead ==
    \A p \in Procs :
        /\ (pc[p] = "ensured" /\ pc'[p] = "headersReady")
           => headers'[p] = accessToken /\ headers'[p] # Null
        /\ Sends(p) => /\ Last(calls'[p]).bearer = headers[p]
                       /\ Last(calls'[p]).bearer # Null
                       /\ accessToken # Null

\* C10 amended: every resource request is sent after ensureToken has
\* completed, with a token stored, and carries the non-null access token
\* that getHeaders read from the token state when it resumed after
\* ensureToken (the stored token may have been replaced between that read
\* and the send); the retried request after a 401-triggered refresh carries
\* the token that refresh installed or a newer one, never the rejected one.
C10_BearerIsTokenRead ==
    [][C10_SentIsRead]_vars /\ []C10_RetryCarriesNewToken

C10_Witness ==
    \E p \in Procs :
        /\ Len(calls[p]) = 3
        /\ calls[p][2].path = "401"
        /\ calls[p][2].outcome = "ok"
        /\ calls[p][3].kind = "resource"
        /\ calls[p][3].bearer = calls[p][2].respAccess
        /\ calls[p][3].bearer # calls[p][1].bearer

\* ------------------------------------------------------------------ C11
\* request p is started in this step
Started(p) ==
    /\ pc[p] \in {"idle", "done", "failed"}
    /\ nRequests' = nRequests + 1
    /\ pc'[p] # pc[p] \/ pc[p] = "failed"
    /\ \A q \in Procs \ {p} : pc'[q] = pc[q] /\ calls'[q] = calls[q]

EnsureCalls(p) ==
    {i \in 1..Len(calls[p]) :
        calls[p][i].kind = "token" /\ calls[p][i].path = "ensure"}

C11_Step ==
    \A p \in Procs :
        Started(p) =>
            IF accessToken # Null
              THEN calls'[p] = <<>> /\ pc'[p] = "ensured"
              ELSE IF refreshToken # Null /\ clientId /\ clientSecret
              THEN /\ Len(calls'[p]) = 1
                   /\ calls'[p][1].kind = "token"
                   /\ calls'[p][1].grant = "refresh_token"
              ELSE IF clientId /\ clientSecret
              THEN /\ Len(calls'[p]) = 1
                   /\ calls'[p][1].kind = "token"
                   /\ calls'[p][1].grant = "client_credentials"
              ELSE /\ calls'[p] = <<>>
                   /\ pc'[p] = "failed"
                   /\ result'[p].kind = "ConfigError"

C11_Final ==
    \A p \in Procs :
        /\ Cardinality(EnsureCalls(p)) <= 1
        /\ result[p].kind = "ConfigError" => calls[p] = <<>>
        /\ \A i \in EnsureCalls(p) : i = 1

\* C11: ensureToken decides by the credentials: with an access token held
\* it calls nothing; else with refreshToken, clientId and clientSecret it
\* issues one refresh_token exchange; else with clientId and clientSecret one
\* client_credentials exchange; else the request fails with the
\* configuration error, with no network call and no resource request.
C11_EnsureTokenRule == [][C11_Step]_vars /\ []C11_Final

C11_Witness ==
    \E p \in Procs :
        /\ pc[p] = "failed"
        /\ result[p].kind = "ConfigError"
        /\ calls[p] = <<>>
        /\ accessToken = Null /\ refreshToken # Null /\ clientId /\ ~clientSecret

\* ---------------------------------------------------------------- C12
\* C12: in every resource request the Authorization header is the Bearer of
\* the stored access token, whatever headers the caller supplies in options:
\* caller headers never override Authorization.
C12_Step ==
    \A p \in Procs :
        Sends(p) => Last(calls'[p]).bearer = BearerOf(accessToken)

AnsweredPlainError(p) ==
    /\ Answered(p)
    /\ calls'[p][Len(calls[p])].outcome = "ok"
    /\ ~IsOk(AnsweredStatus(p))
    /\ AnsweredStatus(p) # 401

\* the request ended with the ApiError of a non-2xx response other than 401
FailedPlainError(p) ==
    /\ pc[p] = "failed"
    /\ result[p].kind = "ApiError"
    /\ result[p].status # 401

\* the step that receives such a response issues no call, starts no refresh,
\* and throws the ApiError carrying the status, the status text and the
\* parsed body of the response; TokenState is not written
C13_Step ==
    \A p \in Procs :
        AnsweredPlainError(p) =>
            /\ pc'[p] = "failed"
            /\ Len(calls'[p]) = Len(calls[p])
            /\ result'[p].kind = "ApiError"
            /\ result'[p].status = AnsweredStatus(p)
            /\ result'[p].status = response'[p].status
            /\ result'[p].statusText = response'[p].statusText
            /\ result'[p].body =
                   (IF response'[p].json # Throws THEN response'[p].json
                    ELSE IF response'[p].text # Throws THEN response'[p].text
                    ELSE NullBody)
            /\ accessToken' = accessToken
            /\ refreshToken' = refreshToken
            /\ tokenRefreshInProgress' = tokenRefreshInProgress

\* the logical request made exactly one network call
C13_OneCall ==
    \A p \in Procs : FailedPlainError(p) => Len(calls[p]) = 1

C13_LastCall ==
    \A p \in Procs :
        FailedPlainError(p) =>
            /\ Last(calls[p]).kind = "resource"
            /\ Last(calls[p]).status = result[p].status
            /\ (EnsureCalls(p) = {} /\ RefreshesOn401(p) = {}
                    => Len(calls[p]) = 1)
            /\ Cardinality(ResourceCalls(p)) <= 2

ParsedNeither(p) ==
    response[p].json = Throws /\ response[p].text = Throws

\* every non-2xx response that ends the request throws an ApiError
C14_Step ==
    \A p \in Procs :
        /\ Answered(p)
        /\ calls'[p][Len(calls[p])].outcome = "ok"
        /\ ~IsOk(AnsweredStatus(p))
        /\ pc'[p] = "failed"
        => /\ result'[p].kind = "ApiError"
           /\ result'[p].status = AnsweredStatus(p)

C14_Message ==
    \A p \in Procs :
        result[p].kind = "ApiError" =>
            /\ ~IsOk(response[p].status)
            /\ Contains(result[p].message, StatusString(response[p].status))
            /\ Contains(result[p].message, response[p].statusText)
            /\ ParsedNeither(p) =>
                  /\ result[p].body = NullBody
                  /\ result[p].message =
                        <<"Concur API error (", Context, "): ",
                          StatusString(response[p].status), " ",
                          response[p].statusText>>

\* C14: the message of every thrown ApiError contains the HTTP status and
\* the status text, also when the body parses neither as JSON nor as text;
\* in that case the body of the error is null and nothing is appended to
\* the message.
C14_MessageKeepsStatus == [][C14_Step]_vars /\ []C14_Message

\* a 500 whose body cannot be parsed has been thrown
C14_Witness ==
    \E p \in Procs :
        /\ pc[p] = "failed"
        /\ result[p].kind = "ApiError"
        /\ result[p].status = 500
        /\ ParsedNeither(p)
        /\ result[p].body = NullBody
        /\ Len(result[p].message) = 6

\* ---------------------------------------------------------------- C15
\* calculatePerDiem has returned a calculation
Calculated == calculation.kind = "PerDiemCalculation"

\* the parsed instants of the arguments
StartInstant == ParseDate(startDate)

EndInstant == ParseDate(endDate)

\* C15: for every valid input, also one that carries a time of day,
\* totalAmount is the sum of the breakdown rates, the breakdown has
\* totalDays entries, and totalDays = fullDays + partialDays.
C15_CalculationInvariants ==
    Calculated =>
        /\ calculation.totalAmount = SumRates(calculation.breakdown)
        /\ Len(calculation.breakdown) = calculation.totalDays
        /\ calculation.totalDays
              = calculation.fullDays + calculation.partialDays

\* ---------------------------------------------------------------- C16
\* C16: for every valid input with start = end and every location query the
\* calculation has totalDays 1, fullDays 0, partialDays 1, one breakdown
\* entry of type 'first', and totalAmount the partial-day rate of the rate
\* the location resolves to (18.00 for Boston).
C16_SingleDay ==
    /\ calculation # NoCalculation /\ startDate = endDate
       /\ startDate # NotADate
         => Calculated
    /\ Calculated /\ StartInstant = EndInstant =>
          /\ calculation.totalDays = 1
          /\ calculation.fullDays = 0
          /\ calculation.partialDays = 1
          /\ Len(calculation.breakdown) = 1
          /\ calculation.breakdown[1].dayType = "first"
          /\ calculation.totalAmount = findPerDiemRate(location).partialDay
          /\ (trim(toLowerCase(location)) = <<"b", "o", "s", "t", "o", "n">>
                => calculation.totalAmount = 1800)

\* calculate("2024-03-01", "2024-03-01", "Boston") has returned 18.00
C16_Witness ==
    /\ Calculated
    /\ startDate = DateOnly(3, 1)
    /\ endDate = DateOnly(3, 1)
    /\ location = <<"B", "o", "s", "t", "o", "n">>
    /\ calculation.totalDays = 1
    /\ calculation.totalAmount = 1800

\* ---------------------------------------------------------------- C17
\* C17: for every valid range of more than one day the breakdown has one
\* 'first' entry at index 0 and one 'last' entry at the final index, both at
\* the partial rate, and every entry between them is 'full' at the full
\* rate.
C17_DayTypePolicy ==
    Calculated /\ calculation.totalDays > 1 =>
        LET b == calculation.breakdown
            n == Len(calculation.breakdown)
        IN /\ n >= 2
           /\ b[1].dayType = "first"
           /\ b[1].rate = calculation.partialDayRate
           /\ b[n].dayType = "last"
           /\ b[n].rate = calculation.partialDayRate
           /\ \A i \in 2..(n - 1) :
                 b[i].dayType = "full" /\ b[i].rate = calculation.fullDayRate

\* ---------------------------------------------------------------- C18
\* C18: for every valid input totalDays = floor((end - start) / 86400000) + 1
\* with start and end the parsed instants, also when their difference is
\* not a whole number of days.
C18_TotalDaysIsFloor ==
    Calculated =>
        calculation.totalDays
          = ((EndInstant - StartInstant) \div 86400000) + 1

\* ---------------------------------------------------------------- C19
\* a date does not parse, or the end is before the start
InvalidRange ==
    \/ isNaN(StartInstant)
    \/ isNaN(EndInstant)
    \/ EndInstant < StartInstant

InvalidDateRangeErrors == {InvalidDateFormat, EndBeforeStartError}

\* C19: calculatePerDiem fails with the invalid-date-range error exactly
\* when a date is unparseable or end < start (equal dates are accepted); it
\* then returns no calculation, and createPerDiemExpenses calls createExpense
\* for no day: no network call, no expense.
C19_InvalidRangeFails ==
    /\ pdPc = "calculated" =>
          /\ calculation \in InvalidDateRangeErrors <=> InvalidRange
          /\ ~InvalidRange => Calculated
    /\ pdPc \in {"creating", "returned", "failed"} =>
          /\ batchResult \in InvalidDateRangeErrors <=> InvalidRange
          /\ InvalidRange =>
                /\ pdPc = "failed"
                /\ calculation = NoCalculation
                /\ createExpenseCalls = <<>>
                /\ expenses = <<>>
                /\ entries = <<>>
          /\ ~InvalidRange => createExpenseCalls # <<>>

\* createPerDiemExpenses has failed for an end date before the start date
C19_Witness ==
    /\ pdPc = "failed"
    /\ batchResult = EndBeforeStartError
    /\ startDate = DateOnly(3, 1)
    /\ endDate = DateOnly(2, 29)
    /\ createExpenseCalls = <<>>

\* ---------------------------------------------------------------- C20
\* both arguments are date-only strings
DateOnlyInput ==
    startDate.form = "YYYY-MM-DD" /\ endDate.form = "YYYY-MM-DD"

\* the number of calendar days from startDate to endDate, both included
CalendarDays ==
    DayOfYear(endDate.month, endDate.day)
      - DayOfYear(startDate.month, startDate.day) + 1

\* C20: for every date-only range of n >= 2 days and every rate,
\* fullDays = n - 2, partialDays = 2 and totalAmount = 2 * partialDay
\* + (n - 2) * fullDay; three days for NYC give 3, 1, 2, 92.00, 69.00 and
\* 230.00.
C20_ClosedForm ==
    Calculated /\ DateOnlyInput /\ CalendarDays >= 2 =>
        /\ calculation.totalDays = CalendarDays
        /\ calculation.fullDays = CalendarDays - 2
        /\ calculation.partialDays = 2
        /\ calculation.fullDayRate = findPerDiemRate(location).fullDay
        /\ calculation.partialDayRate = findPerDiemRate(location).partialDay
        /\ calculation.totalAmount
              = 2 * findPerDiemRate(location).partialDay
                + (CalendarDays - 2) * findPerDiemRate(location).fullDay
        /\ (location = <<"N", "Y", "C">> /\ CalendarDays = 3 =>
              /\ calculation.fullDays = 1
              /\ calculation.fullDayRate = 9200
              /\ calculation.partialDayRate = 6900
              /\ calculation.totalAmount = 23000)

\* calculate("2024-02-28", "2024-03-01", "NYC") has returned 230.00
C20_Witness ==
    /\ Calculated
    /\ startDate = DateOnly(2, 28)
    /\ endDate = DateOnly(3, 1)
    /\ location = <<"N", "Y", "C">>
    /\ calculation.totalDays = 3
    /\ calculation.totalAmount = 23000

\* ---------------------------------------------------------------- C21
ToUpperChar(c) ==
    IF \E i \in 1..Len(LowerCase) : LowerCase[i] = c
      THEN UpperCase[CHOOSE i \in 1..Len(LowerCase) : LowerCase[i] = c]
      ELSE c

\* the strings that differ from q by the case of letters only: all of them
\* for a query of at most three characters, else q in lower case, in upper
\* case and with the case of every letter swapped
CaseVariants(q) ==
    IF Len(q) <= 3
      THEN {v \in [1..Len(q) -> {ToLowerChar(q[i]) : i \in 1..Len(q)}
                                   \cup {ToUpperChar(q[i]) : i \in 1..Len(q)}] :
               \A i \in 1..Len(q) : ToLowerChar(v[i]) = ToLowerChar(q[i])}
      ELSE {q,
            [i \in 1..Len(q) |-> ToLowerChar(q[i])],
            [i \in 1..Len(q) |-> ToUpperChar(q[i])],
            [i \in 1..Len(q) |->
                IF ToLowerChar(q[i]) = q[i] THEN ToUpperChar(q[i])
                                            ELSE ToLowerChar(q[i])]}

\* the rate a calculation was made with is the rate r
MadeWith(r) ==
    /\ calculation.location = r.location
    /\ calculation.fullDayRate = r.fullDay
    /\ calculation.partialDayRate = r.partialDay

\* every case variant of the query resolves to the rate of the calculation
C21_SameRate ==
    Calculated /\ pdPc = "calculated" =>
        LET found == findPerDiemRate(location)
        IN /\ MadeWith(found)
           /\ \A v \in CaseVariants(location) : findPerDiemRate(v) = found

\* a repeated call returns what the first call returned
C21_Repeat ==
    pdPc = "calculated" /\ pdPc' = "calculated" => calculation' = calculation

\* C21: findPerDiemRate is case-insensitive and idempotent: every case
\* variant of a query resolves to the same rate and a repeated call returns
\* the same rate.
C21_CaseInsensitive == []C21_SameRate /\ [][C21_Repeat]_vars

\* "nyc" has resolved to New York City
C21_Witness ==
    /\ Calculated
    /\ location = <<"n", "y", "c">>
    /\ calculation.location = <<"N", "e", "w", " ", "Y", "o", "r", "k", " ", "C", "i", "t", "y">>
    /\ <<"N", "y", "c">> \in CaseVariants(location)

\* ---------------------------------------------------------------- C22
\* the query as findPerDiemRate compares it
Normalized == trim(toLowerCase(location))

\* the rows of the table one of whose names is the normalized query
ExactRows ==
    {i \in 1..Len(PER_DIEM_RATES) :
        \E k \in 1..Len(NamesOf(PER_DIEM_RATES[i])) :
            toLowerCase(NamesOf(PER_DIEM_RATES[i])[k]) = Normalized}

\* the rows of the table one of whose names contains the normalized query or
\* is contained in it
SubstringRows ==
    {i \in 1..Len(PER_DIEM_RATES) :
        \E k \in 1..Len(NamesOf(PER_DIEM_RATES[i])) :
            \/ includes(toLowerCase(NamesOf(PER_DIEM_RATES[i])[k]), Normalized)
            \/ includes(Normalized, toLowerCase(NamesOf(PER_DIEM_RATES[i])[k]))}

\* C22: an exact match wins over a substring match: a query that equals a
\* name or an alias of rate R resolves to R even when an earlier rate of the
\* table matches it by substring ("Other" resolves to Rest of World, not to
\* All Other US); the substring pass decides only when no rate matches
\* exactly.
C22_ExactMatchWins ==
    Calculated /\ pdPc = "calculated" =>
        /\ ExactRows # {} =>
              \A i \in ExactRows : MadeWith(PER_DIEM_RATES[i])
        /\ ExactRows = {} /\ SubstringRows # {} =>
              MadeWith(PER_DIEM_RATES[MinOf(SubstringRows)])
        /\ Normalized = <<"o", "t", "h", "e", "r">> =>
              calculation.location = <<"R", "e", "s", "t", " ", "o", "f", " ", "W", "o", "r", "l", "d">>

\* "Other" has resolved to Rest of World although All Other US, earlier in
\* the table, contains it
C22_Witness ==
    /\ Calculated
    /\ pdPc = "calculated"
    /\ location = <<"O", "t", "h", "e", "r">>
    /\ calculation.location = <<"R", "e", "s", "t", " ", "o", "f", " ", "W", "o", "r", "l", "d">>
    /\ 8 \in ExactRows
    /\ 4 \in SubstringRows

\* ---------------------------------------------------------------- C23
\* the normalized query contains the string part
QueryContains(part) ==
    \E i \in 0..(Len(Normalized) - Len(part)) :
        SubSeq(Normalized, i + 1, i + Len(part)) = part

\* the normalized query is a token of two letters
TwoLetterQuery ==
    /\ Len(Normalized) = 2
    /\ \A i \in 1..2 : \E j \in 1..Len(LowerCase) : LowerCase[j] = Normalized[i]

\* C23: a query that matches no name or alias, neither exactly nor by
\* substring, resolves to All Other US when it contains "us", "united
\* states" or "america" or is a two-letter token, and to Rest of World
\* otherwise; some rate of the table is always returned.
C23_Defaults ==
    Calculated /\ pdPc = "calculated" =>
        /\ \E i \in 1..Len(PER_DIEM_RATES) : MadeWith(PER_DIEM_RATES[i])
        /\ ExactRows = {} /\ SubstringRows = {} =>
              IF \/ QueryContains(<<"u", "s">>)
                 \/ QueryContains(<<"u", "n", "i", "t", "e", "d", " ", "s", "t", "a", "t", "e", "s">>)
                 \/ QueryContains(<<"a", "m", "e", "r", "i", "c", "a">>)
                 \/ TwoLetterQuery
                THEN calculation.location = <<"A", "l", "l", " ", "O", "t", "h", "e", "r", " ", "U", "S">>
                ELSE calculation.location = <<"R", "e", "s", "t", " ", "o", "f", " ", "W", "o", "r", "l", "d">>

\* "xy" matches nothing and has resolved to All Other US
C23_Witness ==
    /\ Calculated
    /\ pdPc = "calculated"
    /\ location = <<"x", "y">>
    /\ ExactRows = {}
    /\ SubstringRows = {}
    /\ calculation.location = <<"A", "l", "l", " ", "O", "t", "h", "e", "r", " ", "U", "S">>

\* ---------------------------------------------------------------- C24
\* C24: first and last days are paid at 75% of the full-day rate: for every
\* rate of the table, and so for every calculation, 4 * partialDay
\* = 3 * fullDay in cents.
C24_PartialIsThreeQuarters ==
    Calculated =>
        /\ \A i \in 1..Len(PER_DIEM_RATES) :
              MadeWith(PER_DIEM_RATES[i]) =>
                  4 * PER_DIEM_RATES[i].partialDay
                    = 3 * PER_DIEM_RATES[i].fullDay
        /\ 4 * calculation.partialDayRate = 3 * calculation.fullDayRate
        /\ 4 * calculation.breakdown[1].rate = 3 * calculation.fullDayRate

\* ---------------------------------------------------------------- C25
\* C25: the startup check accepts a configuration only if it holds an access
\* token, or a refresh token with clientId and clientSecret, or clientId and
\* clientSecret; so after an accepted startup no request fails in
\* ensureToken with the no-usable-credentials error.
C25_NoConfigErrorAfterStartup ==
    \A p \in Procs :
        pc[p] = "failed" =>
            /\ result[p].kind # "ConfigError"
            /\ TokenHeld \/ (clientId /\ clientSecret)

\* ---------------------------------------------------------------- C26
\* the domain operation has ended
OperationEnded == domainOp.pc \in {"returned", "threw"}

\* the requests of the operation that fetchWithRetry rejected
RejectedRequests ==
    {i \in 1..Len(domainOp.requests) : domainOp.requests[i].outcome = "error"}

\* C26: every failure of the request client during a domain operation
\* reaches the caller of the operation as that same error: no operation
\* returns normally or throws another error after one of its requests
\* failed.
C26_FailuresReachCaller ==
    OperationEnded =>
        \A i \in RejectedRequests :
            /\ domainOp.pc = "threw"
            /\ domainOp.result = domainOp.requests[i].error

\* ---------------------------------------------------------------- C27
\* the token endpoint grants an exchange of request p in this step
ExchangeGranted(p) ==
    /\ pc[p] \in {"refreshFromEnsure", "refreshFrom401", "authenticate"}
    /\ pc'[p] \in {"ensured", "refreshed"}
    /\ Last(calls'[p]).kind = "token"
    /\ Last(calls'[p]).outcome = "ok"

C27_Step ==
    /\ (accessToken' # accessToken \/ refreshToken' # refreshToken)
          => \E p \in Procs : ExchangeGranted(p)
    /\ clientId' = clientId
    /\ clientSecret' = clientSecret

\* C27: the stored access token and refresh token change only in a step in
\* which a token exchange is granted; every other step (a resource request
\* sent, a resource response received, an ApiError built, a token exchange
\* rejected, a per-diem calculation) leaves both unchanged, and no step
\* changes clientId or clientSecret.
C27_TokensWrittenByExchangeOnly == [][C27_Step]_vars

C27_Witness ==
    \E p, q \in Procs :
        /\ pc[p] = "failed"
        /\ result[p].kind = "RefreshError"
        /\ Last(calls[p]).outcome = "rejected"
        /\ pc[q] = "refreshed"
        /\ accessToken = lastTokenResponse.access_token
        /\ accessToken # ConfigToken

\* ---------------------------------------------------------------- C28
\* request p: its first resource request carried bearer b and was answered
\* 401, and a token exchange was issued for it from the 401 branch
RefreshedFor(p, b) ==
    /\ Len(calls[p]) >= 2
    /\ calls[p][1].kind = "resource"
    /\ calls[p][1].bearer = b
    /\ calls[p][1].status = 401
    /\ calls[p][2].kind = "token"
    /\ calls[p][2].path = "401"

C28_Step ==
    \A p \in Procs :
        (/\ Answered(p)
         /\ calls'[p][Len(calls[p])].outcome = "ok"
         /\ AnsweredStatus(p) = 401
         /\ retryOn401[p]
         /\ ~tokenRefreshInProgress
         /\ CanRefresh)
        => /\ pc'[p] = "refreshFrom401"
           /\ Last(calls'[p]).kind = "token"
           /\ Last(calls'[p]).path = "401"
           /\ Last(calls'[p]).outcome = "pending"

\* C28: a request answered 401 that finds the flag false issues a token
\* exchange whether or not the token it sent is still the stored one, so
\* two concurrent requests answered 401 for the same stale access token can
\* each find the flag false and each issue a token exchange.  The witness is
\* that interleaving: the second request was sent with the stale token
\* before the first one's exchange replaced it, and was answered after the
\* first one had cleared the flag.
C28_EachStaleRequestRefreshes == [][C28_Step]_vars

C28_Witness ==
    \E p, q \in Procs :
        /\ p # q
        /\ RefreshedFor(p, ConfigToken)
        /\ RefreshedFor(q, ConfigToken)
        /\ calls[p][2].outcome = "ok"
        /\ accessToken = calls[p][2].respAccess
        /\ accessToken # ConfigToken
        /\ pc[q] = "refreshFrom401"
        /\ calls[q][2].outcome = "pending"
        /\ tokenRefreshInProgress

\* ---------------------------------------------------------------- C29
\* the requests whose 401-triggered token exchange is in flight
RefreshingOn401 == {p \in Procs : pc[p] = "refreshFrom401"}

\* fetchWithRetry lines 168-172 run without suspension: the step that finds
\* the flag false is the step that sets it
C29_Step ==
    \A p \in Procs :
        (pc[p] # "refreshFrom401" /\ pc'[p] = "refreshFrom401")
        => /\ ~tokenRefreshInProgress
           /\ tokenRefreshInProgress'
           /\ RefreshingOn401 = {}

C29_AtMostOne ==
    /\ Cardinality(RefreshingOn401) <= 1
    /\ RefreshingOn401 # {} => tokenRefreshInProgress

\* C29: refreshes started from the 401 branch never overlap: the flag is
\* tested and set in one step, so at most one 401-triggered token exchange
\* is in flight at any moment.
C29_RefreshesNeverOverlap == []C29_AtMostOne /\ [][C29_Step]_vars

\* one request awaits its 401-triggered exchange while another, answered 401
\* in the meantime, was turned away by the flag and failed with the ApiError
C29_Witness ==
    \E p, q \in Procs :
        /\ p # q
        /\ pc[p] = "refreshFrom401"
        /\ tokenRefreshInProgress
        /\ pc[q] = "failed"
        /\ result[q].kind = "ApiError"
        /\ result[q].status = 401
        /\ Len(calls[q]) = 1
        /\ retryOn401[q]

\* ---------------------------------------------------------------- C30
\* the requests inside `await this.refreshAccessToken()` of the 401 branch:
\* the exchange is in flight, or it has ended and fetchWithRetry has not
\* resumed yet
AwaitingRefreshOn401 ==
    {p \in Procs : pc[p] \in {"refreshFrom401", "refreshed", "refreshThrew"}}

C30_FlagIffAwaiting ==
    /\ tokenRefreshInProgress <=> AwaitingRefreshOn401 # {}
    /\ Quiescent => ~tokenRefreshInProgress

C30_Step ==
    \A p \in Procs :
        /\ (pc[p] = "refreshed" /\ pc'[p] # "refreshed")
           => /\ ~tokenRefreshInProgress'
              /\ calls'[p] = calls[p]
              /\ pc'[p] # "awaitResponse"
        /\ (pc[p] = "refreshThrew" /\ pc'[p] # "refreshThrew")
           => /\ ~tokenRefreshInProgress'
              /\ pc'[p] = "failed"

\* C30: tokenRefreshInProgress is true exactly while some request is inside
\* the await of its 401-triggered refresh.  The step that resumes after a
\* successful refresh clears it before the retry is sent, the step that
\* resumes after a failed one clears it as the error leaves fetchWithRetry,
\* and it is false whenever no request is in flight.
C30_FlagTracksRefresh == []C30_FlagIffAwaiting /\ [][C30_Step]_vars

\* both ways out were taken: one request retried after its refresh and
\* succeeded, another failed with the refresh error, and the flag is clear
C30_Witness ==
    \E p, q \in Procs :
        /\ Quiescent
        /\ pc[p] = "done"
        /\ RefreshesOn401(p) # {}
        /\ pc[q] = "failed"
        /\ result[q].kind = "RefreshError"
        /\ RefreshesOn401(q) # {}
        /\ ~tokenRefreshInProgress

\* ---------------------------------------------------------------- C31
\* the stored access token is the one of the last token response, and that
\* response came from a refresh_token exchange
StoredFromRefresh ==
    /\ accessToken # Null
    /\ accessToken = lastTokenResponse.access_token
    /\ \E p \in Procs : \E i \in 1..Len(calls[p]) :
          /\ calls[p][i].kind = "token"
          /\ calls[p][i].grant = "refresh_token"
          /\ calls[p][i].outcome = "ok"
          /\ calls[p][i].respAccess = accessToken

\* C31: the two writes of a successful refresh are one step: in no state is
\* the access token of a refresh response stored while the refresh token
\* that response supplied is not, so no concurrent request sends a resource
\* request or starts a token exchange between the two writes.
C31_TokensReplacedTogether ==
    (StoredFromRefresh /\ lastTokenResponse.refresh_token # Null)
        => refreshToken = lastTokenResponse.refresh_token

\* a refresh rotated both tokens and another request has since sent a
\* resource request with the new access token
C31_Witness ==
    \E p, q \in Procs :
        /\ p # q
        /\ StoredFromRefresh
        /\ lastTokenResponse.refresh_token # Null
        /\ refreshToken # ConfigToken
        /\ RefreshesOn401(p) # {}
        /\ pc[q] = "awaitResponse"
        /\ Last(calls[q]).bearer = accessToken

\* ---------------------------------------------------------------- C32
C32_Step ==
    /\ accessToken # Null => accessToken' # Null
    /\ refreshToken = Null => refreshToken' = Null
    /\ \A p \in Procs :
          (Started(p) /\ accessToken # Null)
          => calls'[p] = <<>> /\ pc'[p] = "ensured"
    /\ \A p \in Procs :
          (/\ refreshToken = Null
           /\ Answered(p)
           /\ calls'[p][Len(calls[p])].outcome = "ok"
           /\ AnsweredStatus(p) = 401)
          => /\ pc'[p] = "failed"
             /\ result'[p].kind = "ApiError"
             /\ result'[p].status = 401
             /\ Len(calls'[p]) = Len(calls[p])
    /\ (refreshToken = Null /\ accessToken # Null /\ accessToken' # accessToken)
          => \E p \in Procs : pc[p] = "authenticate"

SuffixByPriority(content) ==
    IF content.type = "object" /\ content.Message # ""
      THEN <<" - ", content.Message>>
    ELSE IF content.type = "object" /\ content.error_description # ""
      THEN <<" - ", content.error_description>>
    ELSE IF content.type \in {"text", "string"}
            /\ Len(content.chars) < TextLimit
      THEN <<" - ">> \o content.chars
    ELSE <<>>

\* C33: the message of every thrown ApiError is the base message followed
\* by the suffix chosen by strict priority: the Message field of the body,
\* else its error_description field, else the body itself when it is plain
\* text shorter than 200 characters; in every other case nothing is
\* appended.
C33_SuffixByPriority ==
    \A p \in Procs :
        (pc[p] = "failed" /\ result[p].kind = "ApiError")
        => result[p].message =
              BaseMessage(response[p], Context)
                 \o SuffixByPriority(response[p].content)

\* ---------------------------------------------------------------- C34
\* the sum of the amounts of the expenses createExpense was called with
RECURSIVE SumAmounts(_)
SumAmounts(created) ==
    IF created = <<>> THEN 0
    ELSE SumAmounts(SubSeq(created, 1, Len(created) - 1))
         + created[Len(created)].transactionAmount

\* createPerDiemExpenses has returned the batch
BatchReturned == pdPc = "returned" /\ batchResult.kind = "Batch"

\* C34: createPerDiemExpenses computes the calculation without a network
\* call and creates one expense per breakdown entry, one after the other
\* and in breakdown order, with the entry's date and rate; when all
\* creations succeed the number of created expenses is totalDays and their
\* amounts sum to totalAmount.
C34_OneExpensePerDay ==
    /\ \A p \in Procs : calls[p] = <<>>
    /\ pdPc \in {"creating", "returned", "failed"} /\ Calculated =>
          /\ Len(createExpenseCalls) <= Len(calculation.breakdown)
          /\ Len(createExpenseCalls) \in {Len(expenses), Len(expenses) + 1}
          /\ \A i \in 1..Len(createExpenseCalls) :
                /\ createExpenseCalls[i].transactionDate
                      = calculation.breakdown[i].date
                /\ createExpenseCalls[i].transactionAmount
                      = calculation.breakdown[i].rate
    /\ BatchReturned =>
          /\ Len(batchResult.expenses) = Len(createExpenseCalls)
          /\ Len(batchResult.expenses) = batchResult.calculation.totalDays
          /\ SumAmounts(createExpenseCalls)
                = batchResult.calculation.totalAmount

\* ---------------------------------------------------------------- C35
\* createExpense rejects in this step
CreationFails == pdPc = "creating" /\ pdPc' = "failed"

C35_Step ==
    /\ CreationFails =>
          /\ batchResult'.kind = "Error"
          /\ DOMAIN batchResult' = {"kind", "message"}
          /\ entries' = entries
          /\ createExpenseCalls' = createExpenseCalls
    /\ pdPc = "failed" =>
          /\ createExpenseCalls' = createExpenseCalls
          /\ entries' = entries
          /\ batchResult' = batchResult

C35_Failed ==
    (pdPc = "failed" /\ createExpenseCalls # <<>>) =>
        /\ Len(createExpenseCalls) = Len(entries) + 1
        /\ \A i \in 1..Len(entries) : entries[i] = createExpenseCalls[i]
        /\ batchResult.kind = "Error"

\* C35: the batch is not atomic: when createExpense fails for one day the
\* error ends createPerDiemExpenses at once, createExpense is not called
\* for any later day, the entries created for the earlier days stay, and
\* the caller receives the error only, without the expenses created.
C35_BatchNotAtomic == [][C35_Step]_vars /\ []C35_Failed

\* the second of at least three days failed: one entry exists, the
\* remaining days were never attempted
C35_Witness ==
    /\ pdPc = "failed"
    /\ Calculated
    /\ Len(calculation.breakdown) >= 3
    /\ Len(createExpenseCalls) = 2
    /\ Len(entries) = 1
    /\ entries[1].transactionDate = calculation.breakdown[1].date
    /\ batchResult.kind = "Error"

\* ---------------------------------------------------------------- C36
\* the calendar day after d
NextCalendarDay(d) ==
    IF d.day < DaysInMonth(d.month) THEN DateOnly(d.month, d.day + 1)
                                    ELSE DateOnly(d.month + 1, 1)

\* C36: for date-only inputs the breakdown lists the consecutive calendar
\* days of the range in order: the first entry is the start date, each
\* entry is the day after the one before, the last is the end date, no
\* date is repeated or skipped, and every entry carries the canonical
\* location name of the resolved rate.
C36_ConsecutiveDays ==
    Calculated /\ DateOnlyInput =>
        LET b == calculation.breakdown
        IN /\ Len(b) = CalendarDays
           /\ b[1].date = startDate
           /\ b[Len(b)].date = endDate
           /\ \A i \in 1..(Len(b) - 1) : b[i + 1].date = NextCalendarDay(b[i].date)
           /\ \A i, j \in 1..Len(b) : i # j => b[i].date # b[j].date
           /\ \A i \in 1..Len(b) :
                 /\ b[i].location = findPerDiemRate(location).location
                 /\ b[i].location = calculation.location

\* 2024-02-28 to 2024-03-02 has been calculated: four days across the
\* leap day and the end of the month
C36_Witness ==
    /\ Calculated
    /\ startDate = DateOnly(2, 28)
    /\ endDate = DateOnly(3, 2)
    /\ Len(calculation.breakdown) = 4
    /\ calculation.breakdown[2].date = DateOnly(2, 29)
    /\ calculation.breakdown[3].date = DateOnly(3, 1)

\* ---------------------------------------------------------------- C37
\* the requests of the operation that POST the entry
Posts ==
    {i \in 1..Len(domainOp.requests) : domainOp.requests[i].method = "POST"}

\* request i fetched the group configuration and fetchWithRetry resolved
FetchedConfiguration(i) ==
    /\ i <= Len(domainOp.requests)
    /\ domainOp.requests[i].context = "getExpenseGroupConfigurations"
    /\ domainOp.requests[i].outcome = "ok"

Puts ==
    {i \in 1..Len(domainOp.requests) : domainOp.requests[i].method = "PUT"}

\* the body fields written from an update field that was provided
UpdatedFields ==
    {UpdateFields[k][2] : k \in {j \in 1..Len(UpdateFields) :
                                   UpdateFields[j][1] \in DOMAIN domainOp.updates}}

\* C38: updateExpense GETs the expense and then PUTs to the same entry: the
\* PUT body holds the update's value for each update field that was
\* provided and the fetched value for every other writable field of the
\* fetched expense, fields outside the writable list are omitted, and when
\* the GET fails no PUT is issued.
C38_UpdateMerges ==
    domainOp.name = "updateExpense" =>
        /\ domainOp.requests[1].method = "GET"
        /\ domainOp.requests[1].context = "getExpenseDetails"
        /\ domainOp.requests[1].outcome # "ok" => Puts = {}
        /\ \A i \in Puts :
              LET body == domainOp.requests[i].body
              IN /\ i = 2
                 /\ \A k \in 1..Len(UpdateFields) :
                       UpdateFields[k][1] \in DOMAIN domainOp.updates =>
                          /\ UpdateFields[k][2] \in DOMAIN body
                          /\ body[UpdateFields[k][2]]
                                = domainOp.updates[UpdateFields[k][1]]
                 /\ \A f \in (WritableFields \cap DOMAIN domainOp.existing)
                                \ UpdatedFields :
                       f \in DOMAIN body /\ body[f] = domainOp.existing[f]
                 /\ DOMAIN body \subseteq WritableFields

\* C39: in the HTTP server, over every order of SSE connects, closes and
\* POSTs to /messages, the transports map holds exactly the sessions whose
\* connection is open; a session is in the map in a step before the one in
\* which its server.connect resolves; a POST is handed to a transport if
\* and only if its sessionId is that of an open connection, and then to the
\* transport of that connection; every other POST is answered 400 "No
\* active session" and handed to no transport.
C39_MapHoldsOpenSessions == httpServer.transports = httpServer.open

C39_Step ==
    /\ \A sessionId \in httpServer'.connected \ httpServer.connected :
          sessionId \in 1..httpServer.opened
    /\ httpServer'.posts # httpServer.posts =>
          LET post == httpServer'.posts[Len(httpServer'.posts)]
          IN /\ post.transport # NoTransport <=> post.sessionId \in httpServer.open
             /\ post.transport # NoTransport =>
                   post.transport = post.sessionId /\ post.status = 0
             /\ post.transport = NoTransport =>
                   post.status = 400 /\ post.error = "No active session"
             /\ httpServer'.transports = httpServer.transports

C39_SessionRouting == []C39_MapHoldsOpenSessions /\ [][C39_Step]_vars

\* a POST reached the transport of a session, that session's connection
\* then closed, and a second POST with the same sessionId was answered 400
\* while another session stayed open
C39_Witness ==
    /\ Len(httpServer.posts) = 2
    /\ httpServer.posts[1].transport # NoTransport
    /\ httpServer.posts[2].sessionId = httpServer.posts[1].sessionId
    /\ httpServer.posts[2].status = 400
    /\ httpServer.posts[2].transport = NoTransport
    /\ httpServer.open # {}
    /\ httpServer.connected # {}
====
